---- MODULE Spec2Model ----
(***************************************************************************)
(* Model of the HTTP transport core of the Neutron SDK (client.ts):        *)
(* token lifecycle, request execution with retry and backoff, and the      *)
(* callers of ensureAuth.  Every await of the source is a point where      *)
(* another call on the same client may run; the code between two awaits    *)
(* is one atomic action.                                                   *)
(***************************************************************************)
EXTENDS Integers, Sequences, FiniteSets, TLC

\* ------------------------------------------------------------------ bounds

MaxRetriesBound == 1       \* explicit config.maxRetries: 0..MaxRetriesBound
MaxCalls == 2              \* operations started on the client in one run
MaxTicks == 1              \* clock ticks (of TickMs) in one run
MaxPolls == 4              \* polls one waitForCompletion may get answered
MaxLines == 3              \* lines one event stream carries
MaxFaults == 2             \* failures the network and the server inject in one run
MaxChars == 3              \* characters of an argument of sanitizePathParam
MaxBody == 3               \* characters or bytes of a webhook body

Procs == {1, 2}            \* concurrent callers of the one client

\* ------------------------------------------------------- program constants

DEFAULT_TIMEOUT == 30000
DEFAULT_MAX_RETRIES == 2
TOKEN_REFRESH_BUFFER_MS == 60000

\* a URL or a path is a sequence of pieces of text
DEFAULT_BASE_URL == <<"https://api.neutron.me">>

\* ------------------------------------------------------------- environment

Undefined == -1            \* an absent config field
NoToken == 0               \* accessToken = null
NoAccount == 0             \* accountId = null
NotJson == -1              \* a response body response.json() rejects
EmptyObject == 0           \* the {} an unparsable error body degrades to
FetchAborted == 0          \* outcome of a dispatch: aborted by the timeout
FetchRejected == -1        \* outcome of a dispatch: fetch rejected (network)

TickMs == DEFAULT_TIMEOUT  \* the clock advances in steps of one default timeout

\* statuses the server answers a resource request with
Statuses == {200, 400, 401, 403, 429, 500}

\* lifetimes of the tokens the token endpoint issues: one inside the refresh
\* buffer, one that leaves it at the next tick
TokenLifetimes == {30000, 90000}

\* expiredAt comes as epoch milliseconds or as an ISO timestamp string
ExpiredAtForms == {"number", "string"}

\* the auth payload comes bare or wrapped in { data: ... }
Envelopes == {TRUE, FALSE}

\* the configurations a client is constructed with: every maxRetries up to
\* the bound and the default, with the default timeout and an explicit one
\* what a caller passes for apiKey and for apiSecret: nothing, the empty
\* string, or a non-empty string
Credentials == {"absent", "empty", "given"}

\* baseUrl and debug are left out of these
Configs == {[maxRetries |-> m, timeout |-> IF m % 2 = 0 THEN 15000 ELSE Undefined,
             apiKey |-> k, apiSecret |-> s, baseUrl |-> <<>>, debug |-> "absent"] :
               m \in {Undefined} \cup (0..MaxRetriesBound),
               k \in Credentials, s \in Credentials}

\* one configuration the diagnostics are examined with: one retry and a key
DebugConfig(s, d, url) ==
    [maxRetries |-> 1, timeout |-> Undefined, apiKey |-> "key", apiSecret |-> s,
     baseUrl |-> url, debug |-> d]

\* the configurations the diagnostics are examined with: debug on, under each
\* of two secrets and a base URL written with trailing slashes, and debug off
DebugConfigs ==
    {DebugConfig(s, "true", <<"https://sandbox.neutron.me", "/", "/">>) :
        s \in {"secret-1", "secret-2"}}
    \cup {DebugConfig("secret-1", "false", <<>>)}

VARIABLES
    config,       \* the NeutronConfig passed to the constructor
    client,       \* what the constructor produced: the client, or the error thrown
    apiKey,       \* this.apiKey
    apiSecret,    \* this.apiSecret
    baseUrl,      \* this.baseUrl
    timeout,      \* this.timeout
    maxRetries,   \* this.maxRetries
    debug,        \* this.debug
    accessToken,  \* this.accessToken
    accountId,    \* this.accountId
    tokenExpiry,  \* this.tokenExpiry
    now,          \* Date.now()
    issued,       \* serial of the last authentication response of the server
    calls,        \* operations started so far
    faults,       \* failures injected so far
    pc,           \* per call: where it is suspended
    op,           \* per call: the operation running
    attempt,      \* per call: request's loop variable
    lastError,    \* per call: request's lastError
    sentAt,       \* per call: when the HTTP call in flight was dispatched
    result,       \* per call: what the operation returned or threw
    sent,         \* per call: the bearer token of every dispatch to the path
    resps,        \* per call: the outcome of every dispatch to the path
    lastBody,     \* per call: the raw body of the last response
    delays,       \* per call: the backoff delays slept, in order
    auths,        \* per call: the authentication requests it issued
    solo,         \* per call: no other call has run while it did
    last,         \* the operation that completed last, if nothing came after
    pred,         \* per call: the operation that completed right before it
    poll,         \* waitForCompletion: its position, arguments and locals
    observed,     \* waitForCompletion: the txnState each poll returned
    callbacks,    \* waitForCompletion: the states passed to onStateChange
    naps,         \* waitForCompletion: the sleeps started
    waited,       \* waitForCompletion: what it returned or threw
    stream,       \* subscribe: its position, arguments and locals
    reader,       \* subscribe: the reader of the response body
    pending,      \* subscribe: the lines of the current chunk not yet looked at
    arrived,      \* subscribe: every complete line split off so far
    yielded,      \* subscribe: the events handed to the consumer
    logged,       \* subscribe: what console.error was given
    streamed,     \* subscribe: how the generator ended
    got,          \* getAccountId: what the last call returned or threw
    sanitized,    \* sanitizePathParam: the last argument and its outcome
    verified,     \* verifyWebhook: the last arguments and their outcome
    resource,     \* createInvoice, payAddress, cancel: position, arguments, locals
    settled,      \* createInvoice, payAddress, cancel: what the call settled with
    diag          \* the lines the client's log() has written to console.error

pollVars == <<poll, observed, callbacks, naps, waited>>
streamVars == <<stream, reader, pending, arrived, yielded, logged, streamed>>
syncVars == <<got, sanitized, verified>>
resourceVars == <<resource, settled>>

vars == <<config, client, apiKey, apiSecret, baseUrl, timeout, maxRetries, debug,
          accessToken, accountId, tokenExpiry,
          now, issued, calls, faults, pc, op, attempt, lastError, sentAt,
          result, sent, resps, lastBody, delays, auths, solo, last, pred,
          pollVars, streamVars, syncVars, resourceVars, diag>>

sessionVars == <<accessToken, accountId, tokenExpiry>>
configVars == <<config, client, apiKey, apiSecret, baseUrl, timeout, maxRetries, debug>>

\* --------------------------------------------------------------- values

NoResult == [kind |-> "none", status |-> 0, body |-> 0, ms |-> 0]
NoError == [kind |-> "undefined", status |-> 0, body |-> 0, ms |-> 0]
Returned(body) == [kind |-> "ok", status |-> 0, body |-> body, ms |-> 0]

NeutronApiError(status, body) ==
    [kind |-> "NeutronApiError", status |-> status, body |-> body, ms |-> 0]
NeutronAuthError(status) ==
    [kind |-> "NeutronAuthError", status |-> status, body |-> 0, ms |-> 0]
NeutronTimeoutError(timeoutMs) ==
    [kind |-> "NeutronTimeoutError", status |-> 0, body |-> 0, ms |-> timeoutMs]
\* what fetch itself rejects with (TypeError: fetch failed)
FetchError == [kind |-> "FetchError", status |-> 0, body |-> 0, ms |-> 0]
\* what response.json() rejects with on a body that is not JSON
SyntaxError == [kind |-> "SyntaxError", status |-> 0, body |-> 0, ms |-> 0]

isRateLimited(err) == err.status = 429
\* isAuthError with the forbidden status forgotten
isAuthError_Only401(err) == err.status = 401

isAuthError(err) == err.status = 401 \/ err.status = 403
\* isRetryable taking every client and server error for retryable
isRetryable_AnyError(err) == err.status >= 400

\* isRetryable with the rate-limit status forgotten
isRetryable_No429(err) == err.status >= 500

isRetryable(err) == err.status = 429 \/ err.status >= 500

NoOp == [op |-> "none", n |-> 0, ok |-> FALSE, valid |-> FALSE]

\* ----------------------------------------------------------- transactions

\* type TransactionState
TransactionState ==
    {"quoted", "userconfirmed", "srccreated", "srcsent", "srcintent",
     "srcpendconfirmfill", "srcconfirmfilled", "destpendsent", "destsent",
     "completed", "expired", "rejected", "error", "usercanceled"}

\* the exported list of final states
FinalStates == {"completed", "expired", "rejected", "error", "usercanceled"}

\* the list waitForCompletion tests the polled state against
FINAL_STATES == {"completed", "failed", "expired", "rejected", "error", "usercanceled"}

\* the txnState values the server answers a poll with: states in progress and
\* every state either list of final states names
ServerStates == {"quoted", "srccreated", "destsent"} \cup FinalStates \cup FINAL_STATES

\* the empty string, which is no txnState
NoState == ""

\* identifiers are strings, modelled as sequences of characters
PathChars == {"t", "x", "1", "-", "_", "."}

\* [^a-zA-Z0-9\-_.] removed
Sanitized(value) == SelectSeq(value, LAMBDA c : c \in PathChars)

\* a test for ".." that looks at the start of the value only
HasDotDot_AtStart(value) ==
    Len(value) >= 2 /\ value[1] = "." /\ value[2] = "."

\* sanitized.includes("..")
HasDotDot(value) ==
    \E i \in 1..(Len(value) - 1) : value[i] = "." /\ value[i + 1] = "."

\* sanitizePathParam throws NeutronValidationError
SanitizePathParamThrows(value) ==
    \/ value = <<>>
    \/ Sanitized(value) # value
    \/ HasDotDot(Sanitized(value))

\* the txnId arguments waitForCompletion is called with
TxnIds == {<<"t", "x", "-", "1">>, <<".", ".", "/", "x">>}

\* the intervalMs and timeoutMs options a caller passes, if any
IntervalOptions == {Undefined, 30000}
TimeoutOptions == {Undefined, 0, 30000}

NoPoll == [pc |-> "idle", txnId |-> <<>>, interval |-> 0, timeout |-> 0,
           onStateChange |-> FALSE, start |-> 0, lastState |-> NoState,
           sleptAt |-> 0]

\* what waitForCompletion settles with: the transaction polled last, or an error
NoWaited == [kind |-> "none", txnState |-> NoState, txnId |-> <<>>, ms |-> 0]
Transaction(id, state) ==
    [kind |-> "Transaction", txnState |-> state, txnId |-> id, ms |-> 0]
\* an error of get() wrapped in a plain Error, its class lost
GetError_Generic(kind) ==
    [kind |-> "Error", txnState |-> NoState, txnId |-> <<>>, ms |-> 0]

\* an error of get(): its class, nothing else
GetError(kind) == [kind |-> kind, txnState |-> NoState, txnId |-> <<>>, ms |-> 0]
\* new Error(`Transaction ${txnId} did not complete within ${timeout}ms`)
DidNotComplete(id, timeoutMs) ==
    [kind |-> "Error", txnState |-> NoState, txnId |-> id, ms |-> timeoutMs]

\* the errors request surfaces to get()
RequestErrors == {"NeutronApiError", "NeutronAuthError", "NeutronTimeoutError",
                  "FetchError", "SyntaxError"}

\* -------------------------------------------------------------- subscribe

\* [0-9a-f] under the flag i
HexDigits == {"0", "1", "2", "3", "4", "5", "6", "7", "8", "9",
              "a", "b", "c", "d", "e", "f", "A", "B", "C", "D", "E", "F"}

\* where the pattern has its four hyphens
HyphenPositions == {9, 14, 19, 24}

\* UUID_RE.test(transactionId):
\* /^[0-9a-f]{8}-[0-9a-f]{4}-[0-9a-f]{4}-[0-9a-f]{4}-[0-9a-f]{12}$/i
IsUuid(id) ==
    /\ Len(id) = 36
    /\ \A i \in 1..36 :
          IF i \in HyphenPositions THEN id[i] = "-" ELSE id[i] \in HexDigits

LowerUuid == <<"0", "1", "2", "3", "4", "5", "6", "7">> \o <<"-">>
             \o <<"8", "9", "a", "b">> \o <<"-">>
             \o <<"c", "d", "e", "f">> \o <<"-">>
             \o <<"0", "1", "2", "3">> \o <<"-">>
             \o <<"4", "5", "6", "7", "8", "9", "a", "b", "c", "d", "e", "f">>

UpperUuid == <<"A", "B", "C", "D", "E", "F", "0", "1">> \o SubSeq(LowerUuid, 9, 36)

\* the transactionId arguments subscribe is called with: two UUIDs, a UUID
\* with a digit that is not hexadecimal, one cut short, one followed by a
\* path, one without hyphens, a path traversal, and the empty string
TransactionIds ==
    { LowerUuid,
      UpperUuid,
      <<"g">> \o SubSeq(LowerUuid, 2, 36),
      SubSeq(LowerUuid, 1, 35),
      LowerUuid \o <<"/", "x">>,
      SelectSeq(LowerUuid, LAMBDA c : c # "-"),
      <<".", ".", "/", "x">>,
      <<>> }

\* the timeoutMs arguments subscribe is called with, if any: none (the default
\* lies between the limits), just below and at the lower limit, and just
\* above the upper one
StreamTimeouts == {Undefined, 4999, 5000, 300001}

\* Math.min, Math.max
Min(a, b) == IF a <= b THEN a ELSE b
Max(a, b) == IF a >= b THEN a ELSE b

\* the clamp with its floor left out
ClampedTimeout_NoFloor(timeoutMs) == Min(timeoutMs, 300000)

\* Math.min(Math.max(timeoutMs, 5_000), 300_000)
ClampedTimeout(timeoutMs) == Min(Max(timeoutMs, 5000), 300000)

\* timeoutMs = 60_000
TimeoutArgument(timeoutMs) == IF timeoutMs = Undefined THEN 60000 ELSE timeoutMs

\* one line of the event stream: whether it starts with "data: ", and what
\* follows (a JSON document, or text that is not JSON)
Line(marker, payload) == [marker |-> marker, payload |-> payload]

\* the empty buffer
NoLine == Line(FALSE, 0)

\* the lines a server writes: an event, a data line that is not JSON, and a
\* line of another field
LineKinds == {"event", "malformed", "other"}

\* the n-th line the server writes, of the given kind
ServerLine(kind, n) ==
    CASE kind = "event" -> Line(TRUE, n)
      [] kind = "malformed" -> Line(TRUE, NotJson)
      [] kind = "other" -> Line(FALSE, n)

\* how a chunk may be cut: up to two complete lines
ChunkKinds ==
    {<<>>} \cup {<<k>> : k \in LineKinds}
           \cup {<<k1, k2>> : k1 \in LineKinds, k2 \in LineKinds}

NoStream == [pc |-> "idle", transactionId |-> <<>>, timeoutMs |-> 0,
             clampedTimeout |-> 0, openedAt |-> 0, buffer |-> NoLine,
             written |-> 0]

\* how the generator ended: kind "none" while it has not, "done" at the end
\* of the stream, "returned" when the consumer stopped it, or the class and
\* message of the error it threw
Streamed(kind, message) == [kind |-> kind, message |-> message]
NoStreamed == Streamed("none", "")

\* ----------------------------------------------------------- constructor

ConfiguredTimeout(cfg) ==
    IF cfg.timeout = Undefined THEN DEFAULT_TIMEOUT ELSE cfg.timeout

ConfiguredMaxRetries(cfg) ==
    IF cfg.maxRetries = Undefined THEN DEFAULT_MAX_RETRIES ELSE cfg.maxRetries

\* .replace(/\/+$/, "")
RECURSIVE StripTrailingSlashes(_)
StripTrailingSlashes(url) ==
    IF url # <<>> /\ url[Len(url)] = "/"
    THEN StripTrailingSlashes(SubSeq(url, 1, Len(url) - 1))
    ELSE url

\* (config.baseUrl || DEFAULT_BASE_URL).replace(/\/+$/, ""): an absent
\* baseUrl and an empty one are both the empty sequence
ConfiguredBaseUrl(cfg) ==
    StripTrailingSlashes(IF cfg.baseUrl = <<>> THEN DEFAULT_BASE_URL ELSE cfg.baseUrl)

\* config.debug ?? false
ConfiguredDebug(cfg) == IF cfg.debug = "absent" THEN FALSE ELSE cfg.debug = "true"

\* ---------------------------------------------------------------- resources

\* Number.NaN, of which no comparison holds
NaN == -9

\* what a caller passes as amountSats and as amountBtc: nothing, or a number
Amounts == {Undefined, NaN, -2, 0, 1}

\* the amounts payAddress is called with
PayAmounts == {Undefined, 1}

\* btcAmount, as a fraction
NoAmount == [num |-> 0, den |-> 0]

\* no txnId
NoTxnId == <<>>

Digits == <<"1", "2", "3", "4", "5", "6", "7", "8", "9">>

\* txn.txnId: the Transaction the server sends as document doc carries an id
\* of its own
TxnIdOf(doc) == <<"t", "x", "-", Digits[doc]>>

\* POST /api/v2/transaction
CreatePath == [method |-> "POST", path |-> "/api/v2/transaction", txnId |-> NoTxnId]

\* the confirm request for the transaction created first, whatever create
\* returned
ConfirmPath_First(txn) ==
    [method |-> "PUT", path |-> "/api/v2/transaction/{txnId}/confirm",
     txnId |-> TxnIdOf(1)]

\* PUT /api/v2/transaction/${txn.txnId}/confirm
ConfirmPath(txn) ==
    [method |-> "PUT", path |-> "/api/v2/transaction/{txnId}/confirm",
     txnId |-> TxnIdOf(txn)]

\* GET /api/v2/transaction/${txnId}
GetPath(id) ==
    [method |-> "GET", path |-> "/api/v2/transaction/{txnId}", txnId |-> id]

\* PUT /api/v2/transaction/${txnId}/confirm, for the id the caller passed
ConfirmPathOf(id) ==
    [method |-> "PUT", path |-> "/api/v2/transaction/{txnId}/confirm", txnId |-> id]

\* GET /api/v2/reference/fiat-institution/by-country/${countryCode}
InstitutionsPath(code) ==
    [method |-> "GET", path |-> "/api/v2/reference/fiat-institution/by-country/{countryCode}",
     txnId |-> code]

\* PUT /api/v2/transaction/${txnId}/cancel
CancelPath(id) ==
    [method |-> "PUT", path |-> "/api/v2/transaction/{txnId}/cancel", txnId |-> id]

NoResource == [pc |-> "idle", op |-> "none", amountSats |-> Undefined,
               amountBtc |-> Undefined, btcAmount |-> NoAmount,
               txnId |-> NoTxnId, txn |-> 0, log |-> <<>>]

\* what a resource method settles with: a value, or an error
NoSettled == [kind |-> "none", message |-> <<>>, error |-> NoResult,
              txnId |-> NoTxnId, amountBtc |-> NoAmount]

NeutronValidationError(message) ==
    [NoSettled EXCEPT !.kind = "NeutronValidationError", !.message = message]

\* an error of the client, passed on as it is
Rejected(err) == [NoSettled EXCEPT !.kind = err.kind, !.error = err]

\* the LightningInvoice built from the confirmed transaction
LightningInvoice(confirmed, btcAmount) ==
    [NoSettled EXCEPT !.kind = "LightningInvoice",
                      !.txnId = TxnIdOf(confirmed),
                      !.amountBtc = btcAmount]

\* the Transaction the client returned
TransactionReturned(doc) ==
    [NoSettled EXCEPT !.kind = "Transaction", !.txnId = TxnIdOf(doc)]

\* res.data ?? res of institutions: the list of institutions
FiatInstitutions == [NoSettled EXCEPT !.kind = "FiatInstitution[]"]

\* the message of the error cancel throws, cut where the test looks
NotAvailableMessage ==
    <<"transactions.cancel() is ", "not available",
      ". Unconfirmed transactions expire automatically.">>

\* new Error("transactions.cancel() is not available. ...")
NotAvailable == [NoSettled EXCEPT !.kind = "Error", !.message = NotAvailableMessage]

\* a value of JavaScript passed where a string is expected
String(chars) == [type |-> "string", chars |-> chars]
Null == [type |-> "null", chars |-> <<>>]
UndefinedValue == [type |-> "undefined", chars |-> <<>>]
Number == [type |-> "number", chars |-> <<>>]

\* what sanitizePathParam was given and what it returned or threw
NoSanitized == [given |-> UndefinedValue, kind |-> "none", value |-> <<>>,
                message |-> ""]

\* no digest
NoMac == [key |-> "", over |-> <<>>]

\* a signature header: absent, or a string, which is the hexadecimal digits
\* of a digest in lower or upper case, or some other text
NoSignature == [type |-> "undefined", hex |-> NoMac, case |-> "", len |-> 0]

\* a webhook body: a string of characters or a Buffer of bytes
NoBody == [type |-> "none", units |-> <<>>]

\* what verifySignature was given and what it returned or threw
NoVerified == [body |-> NoBody, signature |-> NoSignature, secret |-> "",
               kind |-> "none", payload |-> <<>>, message |-> ""]

\* what getAccountId returned or threw, and how many authentications had
\* succeeded by then
NoGot == [kind |-> "none", accountId |-> NoAccount, after |-> 0]

\* !config.apiKey, !config.apiSecret
Falsy(credential) == credential \in {"absent", "empty"}

\* the constructor with the check of apiSecret left out
Construct_NoSecretCheck(cfg) ==
    IF Falsy(cfg.apiKey) THEN "NeutronAuthError" ELSE "HttpClient"

\* the constructor: it throws on a missing credential, before anything else
Construct(cfg) ==
    IF Falsy(cfg.apiKey) \/ Falsy(cfg.apiSecret)
    THEN "NeutronAuthError"
    ELSE "HttpClient"

\* the state after new HttpClient(config), for a config out of cfgs
Constructed(cfgs) ==
    /\ config \in cfgs
    /\ client = Construct(config)
    /\ apiKey = config.apiKey
    /\ apiSecret = config.apiSecret
    /\ baseUrl = ConfiguredBaseUrl(config)
    /\ timeout = ConfiguredTimeout(config)
    /\ maxRetries = ConfiguredMaxRetries(config)
    /\ debug = ConfiguredDebug(config)
    /\ accessToken = NoToken
    /\ accountId = NoAccount
    /\ tokenExpiry = 0
    /\ now = 0
    /\ issued = 0
    /\ calls = 0
    /\ faults = 0
    /\ pc = [p \in Procs |-> "idle"]
    /\ op = [p \in Procs |-> "none"]
    /\ attempt = [p \in Procs |-> 0]
    /\ lastError = [p \in Procs |-> NoError]
    /\ sentAt = [p \in Procs |-> 0]
    /\ result = [p \in Procs |-> NoResult]
    /\ sent = [p \in Procs |-> <<>>]
    /\ resps = [p \in Procs |-> <<>>]
    /\ lastBody = [p \in Procs |-> 0]
    /\ delays = [p \in Procs |-> <<>>]
    /\ auths = [p \in Procs |-> <<>>]
    /\ solo = [p \in Procs |-> FALSE]
    /\ last = NoOp
    /\ pred = [p \in Procs |-> NoOp]
    /\ poll = NoPoll
    /\ observed = <<>>
    /\ callbacks = <<>>
    /\ naps = 0
    /\ waited = NoWaited
    /\ stream = NoStream
    /\ reader = "none"
    /\ pending = <<>>
    /\ arrived = <<>>
    /\ yielded = <<>>
    /\ logged = <<>>
    /\ streamed = NoStreamed
    /\ got = NoGot
    /\ sanitized = NoSanitized
    /\ verified = NoVerified
    /\ resource = NoResource
    /\ settled = NoSettled
    /\ diag = <<>>

Init == Constructed(Configs)

\* a client constructed to examine its diagnostics
DebugInit == Constructed(DebugConfigs)

\* -------------------------------------------------------------------- auth

\* the test of the expiry letting the first instant of the buffer pass
isTokenValid_Inclusive ==
    /\ accessToken # NoToken
    /\ accountId # NoAccount
    /\ now <= tokenExpiry - TOKEN_REFRESH_BUFFER_MS

isTokenValid ==
    /\ accessToken # NoToken
    /\ accountId # NoAccount
    /\ now < tokenExpiry - TOKEN_REFRESH_BUFFER_MS

\* the expiredAt field as the server writes it: epoch milliseconds, or the
\* seconds and milliseconds of an ISO timestamp
ExpiredAt(form, ms) ==
    IF form = "number"
    THEN [form |-> "number", sec |-> 0, msec |-> ms]
    ELSE [form |-> "string", sec |-> ms \div 1000, msec |-> ms % 1000]

\* typeof expiredAt === "number" ? expiredAt : new Date(expiredAt).getTime()
ExpiryOf(expiredAt) ==
    IF expiredAt.form = "number"
    THEN expiredAt.msec
    ELSE expiredAt.sec * 1000 + expiredAt.msec

NoPayload == [accountId |-> NoAccount, accessToken |-> NoToken,
              expiredAt |-> ExpiredAt("number", 0)]

\* the body of a successful authentication response
AuthBody(enveloped, payload) ==
    IF enveloped
    THEN [hasData |-> TRUE, data |-> payload, self |-> NoPayload]
    ELSE [hasData |-> FALSE, data |-> NoPayload, self |-> payload]

\* raw.data ?? raw
Unwrap(raw) == IF raw.hasData THEN raw.data ELSE raw.self

Operations == {"request", "getAuthHeaders", "ensureAuthAndGetAccountId"}

\* a settled call hands its result to the caller before anything else runs
NoneSettled == \A q \in Procs : pc[q] # "done"

\* one abort timer for the whole client: it fires for every call in flight
\* once the oldest of them has run for the timeout
TimedOut_Shared(p) ==
    \E q \in Procs : pc[q] \in {"auth", "api"} /\ now - sentAt[q] >= timeout

\* the abort timer of the call in flight has fired
TimedOut(p) == now - sentAt[p] >= timeout

\* authenticate(), up to its await of rawFetch: the signed request is sent
AuthenticateStarts(p) ==
    /\ pc' = [pc EXCEPT ![p] = "auth"]
    /\ sentAt' = [sentAt EXCEPT ![p] = now']
    /\ auths' = [auths EXCEPT ![p] =
                    Append(@, [at |-> Len(sent[p]), out |-> "pending", tok |-> NoToken])]

\* ensureAuth() without the validity check: it authenticates on every call
EnsureAuthStarts_Always(p) == AuthenticateStarts(p)

\* ensureAuth(), up to its first await
EnsureAuthStarts(p) ==
    IF isTokenValid'
    THEN /\ pc' = [pc EXCEPT ![p] = "ready"]
         /\ UNCHANGED <<sentAt, auths>>
    ELSE AuthenticateStarts(p)

\* the last authentication request of the call is settled
AuthSettled(p, out, tok) ==
    [auths EXCEPT ![p][Len(auths[p])] = [at |-> @.at, out |-> out, tok |-> tok]]

\* a caller starts request, getAuthHeaders or ensureAuthAndGetAccountId; each
\* begins with ensureAuth
Begin(p, o) ==
    /\ client = "HttpClient"
    /\ NoneSettled
    /\ pc[p] = "idle"
    /\ \A q \in Procs : q < p => pc[q] # "idle"
    /\ calls < MaxCalls
    /\ calls' = calls + 1
    /\ op' = [op EXCEPT ![p] = o]
    /\ pred' = [pred EXCEPT ![p] =
                   IF \A q \in Procs : pc[q] = "idle" THEN last ELSE NoOp]
    /\ solo' = [q \in Procs |-> IF q = p THEN \A r \in Procs : pc[r] = "idle"
                                ELSE FALSE]
    /\ last' = NoOp
    /\ UNCHANGED <<configVars, diag, sessionVars, now, issued, faults>>
    /\ EnsureAuthStarts(p)
    /\ UNCHANGED <<attempt, lastError, result, sent, resps, lastBody, delays>>

\* a caller of the client's own operations
Call(p, o) ==
    /\ Begin(p, o)
    /\ UNCHANGED <<pollVars, streamVars, syncVars, resourceVars>>

\* authenticate() that assigns accountId only while none is cached
AuthenticateReturns_KeepsAccount(p) ==
    /\ NoneSettled
    /\ pc[p] = "auth"
    /\ ~TimedOut(p)
    /\ \E form \in ExpiredAtForms, life \in TokenLifetimes, env \in Envelopes :
         LET raw == AuthBody(env, [accountId |-> issued + 1,
                                   accessToken |-> issued + 1,
                                   expiredAt |-> ExpiredAt(form, now + life)])
             res == Unwrap(raw)
         IN /\ accountId' = IF accountId = NoAccount THEN res.accountId ELSE accountId
            /\ accessToken' = res.accessToken
            /\ tokenExpiry' = ExpiryOf(res.expiredAt)
            /\ auths' = AuthSettled(p, "ok", res.accessToken)
    /\ issued' = issued + 1
    /\ pc' = [pc EXCEPT ![p] = "ready"]
    /\ UNCHANGED <<configVars, diag, pollVars, streamVars, syncVars, resourceVars,
                   now, calls, faults, op, attempt, lastError, sentAt,
                   result, sent, resps, lastBody, delays, solo, last, pred>>

\* authenticate(): the token endpoint answers 2xx with a JSON body; the
\* function returns the result, and the log("Authenticated", ...) written
\* after the return statement is never reached, so diag stays as it is
AuthenticateReturns(p) ==
    /\ NoneSettled
    /\ pc[p] = "auth"
    /\ ~TimedOut(p)
    /\ \E form \in ExpiredAtForms, life \in TokenLifetimes, env \in Envelopes :
         LET raw == AuthBody(env, [accountId |-> issued + 1,
                                   accessToken |-> issued + 1,
                                   expiredAt |-> ExpiredAt(form, now + life)])
             res == Unwrap(raw)
         IN /\ accountId' = res.accountId
            /\ accessToken' = res.accessToken
            /\ tokenExpiry' = ExpiryOf(res.expiredAt)
            /\ auths' = AuthSettled(p, "ok", res.accessToken)
    /\ issued' = issued + 1
    /\ pc' = [pc EXCEPT ![p] = "ready"]
    /\ UNCHANGED <<configVars, diag, pollVars, streamVars, syncVars, resourceVars,
                   now, calls, faults, op, attempt, lastError, sentAt,
                   result, sent, resps, lastBody, delays, solo, last, pred>>

\* a rejection by the token endpoint surfacing as the error of a response
AuthFailure_AsApiError(out) ==
    CASE out = "reject" -> NeutronApiError(401, EmptyObject)
      [] out = "badjson" -> SyntaxError
      [] out = "neterr" -> FetchError
      [] out = "timeout" -> NeutronTimeoutError(timeout)

\* what authenticate() throws for each way its HTTP call can fail
AuthFailure(out) ==
    CASE out = "reject" -> NeutronAuthError(401)
      [] out = "badjson" -> SyntaxError
      [] out = "neterr" -> FetchError
      [] out = "timeout" -> NeutronTimeoutError(timeout)

\* a failing authenticate that clears the cached token on its way out
AuthenticateFails_ClearsToken(p) ==
    /\ NoneSettled
    /\ pc[p] = "auth"
    /\ faults < MaxFaults
    /\ faults' = faults + 1
    /\ \E out \in {"reject", "badjson", "neterr", "timeout"} :
         /\ (out = "timeout") => TimedOut(p)
         /\ (out \in {"reject", "badjson"}) => ~TimedOut(p)
         /\ result' = [result EXCEPT ![p] = AuthFailure(out)]
         /\ auths' = AuthSettled(p, out, NoToken)
    /\ pc' = [pc EXCEPT ![p] = "done"]
    /\ accessToken' = NoToken
    /\ UNCHANGED <<configVars, diag, pollVars, streamVars, syncVars, resourceVars,
                   accountId, tokenExpiry, now, issued, calls, op, attempt,
                   lastError, sentAt, sent, resps, lastBody, delays,
                   solo, last, pred>>

\* authenticate(): the token endpoint answers non-2xx, or 2xx with a body that
\* is not JSON, or fetch rejects, or the timeout aborts the call; the error
\* leaves ensureAuth and the operation that called it
AuthenticateFails(p) ==
    /\ NoneSettled
    /\ pc[p] = "auth"
    /\ faults < MaxFaults
    /\ faults' = faults + 1
    /\ \E out \in {"reject", "badjson", "neterr", "timeout"} :
         /\ (out = "timeout") => TimedOut(p)
         /\ (out \in {"reject", "badjson"}) => ~TimedOut(p)
         /\ result' = [result EXCEPT ![p] = AuthFailure(out)]
         /\ auths' = AuthSettled(p, out, NoToken)
    /\ pc' = [pc EXCEPT ![p] = "done"]
    /\ UNCHANGED <<configVars, diag, pollVars, streamVars, syncVars, resourceVars,
                   sessionVars, now, issued, calls, op, attempt,
                   lastError, sentAt, sent, resps, lastBody, delays,
                   solo, last, pred>>

\* ----------------------------------------------------------------- request

\* Math.pow(2, attempt - 1) * 1000
RECURSIVE Pow2(_)
Pow2(n) == IF n <= 0 THEN 1 ELSE 2 * Pow2(n - 1)

\* the backoff computed from the attempt number itself: 2s, 4s, ...
BackoffMs_FromAttempt(a) == Pow2(a) * 1000

BackoffMs(a) == Pow2(a - 1) * 1000

\* attempt < this.maxRetries, the guard of both retry branches
AttemptsRemain(a) == a < maxRetries

\* the body of the response to one attempt, when it is JSON: each response of
\* a call carries a different document
JsonBody(a) == a + 1

\* response.json()
ParseJson(raw) == IF raw = NotJson THEN SyntaxError ELSE Returned(raw)

\* response.json().catch(() => ({}))
ParseErrorBody(raw) == IF raw = NotJson THEN EmptyObject ELSE raw

\* what goes into a request or a log line is a sequence of pieces: a
\* piece of text, an access token, or the hexadecimal digest of an HMAC
Text(t) == [text |-> t, token |-> NoToken, hmacKey |-> "", hmacOver |-> <<>>]
Token(tok) == [text |-> "", token |-> tok, hmacKey |-> "", hmacOver |-> <<>>]
HmacHex(key, over) == [text |-> "", token |-> NoToken, hmacKey |-> key, hmacOver |-> over]

\* the pieces of a text given as a sequence of strings
AsText(strings) == [i \in 1..Len(strings) |-> Text(strings[i])]

\* JSON.stringify({ test: "auth" })
AuthPayload == <<"{\"test\":\"auth\"}">>

\* a signature that is the secret itself
GenerateSignature_Plain(payload) == Text(apiSecret)

\* generateSignature(payload): the HMAC-SHA256 of `${apiKey}&payload=${payload}`
\* under apiSecret, in hexadecimal
GenerateSignature(payload) == HmacHex(apiSecret, <<apiKey, "&payload=">> \o payload)

\* the request authenticate() hands to rawFetch
AuthRequest ==
    [url |-> AsText(baseUrl \o <<"/api/v2/authentication/token-signature">>),
     method |-> "POST",
     headers |-> {<<"Content-Type", <<Text("application/json")>> >>,
                  <<"X-Api-Key", <<Text(apiKey)>> >>,
                  <<"X-Api-Signature", <<GenerateSignature(AuthPayload)>> >>},
     body |-> AsText(AuthPayload)]

\* the request an attempt of request() hands to rawFetch, sent with the token tok
ApiRequest(tok) ==
    [url |-> AsText(baseUrl \o <<"/api/v2/path">>),
     method |-> "GET",
     headers |-> {<<"Authorization", <<Text("Bearer "), Token(tok)>> >>,
                  <<"Content-Type", <<Text("application/json")>> >>},
     body |-> <<>>]

\* the method and the path request is called with, as log() is given them
RequestLine == AsText(<<"GET", " ", "/api/v2/path">>)

\* data ? ` ${JSON.stringify(data)}` : ""
NoData == <<>>

\* log(message, data): nothing without debug; otherwise one line with the
\* time, the message and the data, appended to console.error
Log(message, data) ==
    IF ~debug
    THEN diag
    ELSE Append(diag, [ts |-> now', message |-> message, extra |-> data])

\* the attempts of one call that are followed: more than the failures of a
\* run allow, and more than any explicit maxRetries asks for
MaxSends == (IF MaxFaults > MaxRetriesBound THEN MaxFaults ELSE MaxRetriesBound) + 1

\* this.log(`${method} ${path}`), then the attempt is handed to rawFetch with
\* Authorization: Bearer <accessToken>
DispatchAttempt(p) ==
    /\ Len(sent[p]) < MaxSends
    /\ diag' = Log(RequestLine, NoData)
    /\ sent' = [sent EXCEPT ![p] = Append(@, accessToken')]
    /\ pc' = [pc EXCEPT ![p] = "api"]
    /\ sentAt' = [sentAt EXCEPT ![p] = now']

\* request(): ensureAuth has resolved, attempt 0 (or, after a
\* re-authentication, the retry) is dispatched
SendAttempt(p) ==
    /\ NoneSettled
    /\ pc[p] = "ready"
    /\ op[p] = "request"
    /\ UNCHANGED <<configVars, pollVars, streamVars, syncVars, resourceVars,
                   sessionVars, now>>
    /\ DispatchAttempt(p)
    /\ UNCHANGED <<issued, calls, faults, op, attempt, lastError, result, resps,
                   lastBody, delays, auths, solo, last, pred>>

\* continue that leaves the loop variable as it is
NextAttempt_NoIncrement(p, err) ==
    /\ attempt' = attempt
    /\ lastError' = [lastError EXCEPT ![p] = err]
    /\ delays' = [delays EXCEPT ![p] = Append(@, BackoffMs(attempt[p] + 1))]
    /\ pc' = [pc EXCEPT ![p] = "sleep"]
    /\ UNCHANGED result

\* continue: attempt++, the loop condition, and the backoff sleep of the next
\* pass; when the loop ends, throw lastError
NextAttempt(p, err) ==
    IF attempt[p] + 1 <= maxRetries
    THEN /\ attempt' = [attempt EXCEPT ![p] = @ + 1]
         /\ lastError' = [lastError EXCEPT ![p] = err]
         /\ delays' = [delays EXCEPT ![p] = Append(@, BackoffMs(attempt[p] + 1))]
         /\ pc' = [pc EXCEPT ![p] = "sleep"]
         /\ UNCHANGED result
    ELSE /\ attempt' = [attempt EXCEPT ![p] = @ + 1]
         /\ lastError' = [lastError EXCEPT ![p] = err]
         /\ result' = [result EXCEPT ![p] = err]
         /\ pc' = [pc EXCEPT ![p] = "done"]
         /\ UNCHANGED delays

\* the operation ends with this value or error
Finish(p, res) ==
    /\ result' = [result EXCEPT ![p] = res]
    /\ pc' = [pc EXCEPT ![p] = "done"]
    /\ UNCHANGED <<attempt, lastError, delays>>

\* the 401 branch without the assignment: the rejected token stays cached
TokenAfter401_Kept == accessToken

\* this.accessToken = null, on a 401 with attempts left
TokenAfter401 == NoToken

\* throw lastError in place of throw apiError
Thrown_LastError(apiError, lastErr) ==
    IF lastErr = NoError THEN apiError ELSE lastErr

\* throw apiError: the error of the response just received
Thrown(apiError, lastErr) == apiError

\* a catch around rawFetch that retries while attempts remain
RawFetchThrows_Retried(p, err) ==
    IF AttemptsRemain(attempt[p]) THEN NextAttempt(p, err) ELSE Finish(p, err)

\* rawFetch threw inside request: no try/catch surrounds the call, so the
\* error leaves request at once
RawFetchThrows(p, err) == Finish(p, err)

\* a response that counts against the failures of a run
IsFailure(status, raw) == status < 200 \/ status > 299 \/ raw = NotJson

\* request() clearing the token on every answer it retries, not on 401 alone
ApiResponse_ClearsOnRetry(p) ==
    /\ NoneSettled
    /\ pc[p] = "api"
    /\ ~TimedOut(p)
    /\ \E status \in Statuses, raw \in {JsonBody(attempt[p]), NotJson} :
         /\ faults' = IF IsFailure(status, raw) THEN faults + 1 ELSE faults
         /\ faults' <= MaxFaults
         /\ resps' = [resps EXCEPT ![p] = Append(@, status)]
         /\ lastBody' = [lastBody EXCEPT ![p] = raw]
         /\ IF status >= 200 /\ status <= 299
            THEN /\ Finish(p, ParseJson(raw))
                 /\ UNCHANGED accessToken
            ELSE LET apiError == NeutronApiError(status, ParseErrorBody(raw))
                 IN IF status = 401 /\ AttemptsRemain(attempt[p])
                    THEN /\ accessToken' = TokenAfter401
                         /\ NextAttempt(p, apiError)
                    ELSE IF isRetryable(apiError) /\ AttemptsRemain(attempt[p])
                    THEN /\ accessToken' = NoToken
                         /\ NextAttempt(p, apiError)
                    ELSE /\ UNCHANGED accessToken
                         /\ Finish(p, Thrown(apiError, lastError[p]))
    /\ UNCHANGED <<configVars, diag, pollVars, streamVars, syncVars, resourceVars,
                   accountId, tokenExpiry, now, issued, calls, op,
                   sentAt, sent, auths, solo, last, pred>>

\* request(): the server answers the attempt in flight
ApiResponse(p) ==
    /\ NoneSettled
    /\ pc[p] = "api"
    /\ ~TimedOut(p)
    /\ \E status \in Statuses, raw \in {JsonBody(attempt[p]), NotJson} :
         /\ faults' = IF IsFailure(status, raw) THEN faults + 1 ELSE faults
         /\ faults' <= MaxFaults
         /\ resps' = [resps EXCEPT ![p] = Append(@, status)]
         /\ lastBody' = [lastBody EXCEPT ![p] = raw]
         /\ IF status >= 200 /\ status <= 299
            THEN /\ Finish(p, ParseJson(raw))
                 /\ UNCHANGED accessToken
            ELSE LET apiError == NeutronApiError(status, ParseErrorBody(raw))
                 IN IF status = 401 /\ AttemptsRemain(attempt[p])
                    THEN /\ accessToken' = TokenAfter401
                         /\ NextAttempt(p, apiError)
                    ELSE IF isRetryable(apiError) /\ AttemptsRemain(attempt[p])
                    THEN /\ UNCHANGED accessToken
                         /\ NextAttempt(p, apiError)
                    ELSE /\ UNCHANGED accessToken
                         /\ Finish(p, Thrown(apiError, lastError[p]))
    /\ UNCHANGED <<configVars, diag, pollVars, streamVars, syncVars, resourceVars,
                   accountId, tokenExpiry, now, issued, calls, op,
                   sentAt, sent, auths, solo, last, pred>>

\* request(): rawFetch throws, because the timeout aborted the call or because
\* fetch rejected; nothing in request catches it
ApiFetchFails(p) ==
    /\ NoneSettled
    /\ pc[p] = "api"
    /\ faults < MaxFaults
    /\ faults' = faults + 1
    /\ \/ /\ TimedOut(p)
          /\ resps' = [resps EXCEPT ![p] = Append(@, FetchAborted)]
          /\ RawFetchThrows(p, NeutronTimeoutError(timeout))
       \/ /\ resps' = [resps EXCEPT ![p] = Append(@, FetchRejected)]
          /\ RawFetchThrows(p, FetchError)
    /\ UNCHANGED <<configVars, diag, pollVars, streamVars, syncVars, resourceVars,
                   sessionVars, now, issued, calls, op, sentAt, sent,
                   lastBody, auths, solo, last, pred>>

\* request(): the backoff timer fires; the token is checked again and either
\* authenticate() is called or the attempt is dispatched at once
WakeUp(p) ==
    /\ NoneSettled
    /\ pc[p] = "sleep"
    /\ UNCHANGED <<configVars, pollVars, streamVars, syncVars, resourceVars,
                   sessionVars, now>>
    /\ IF isTokenValid'
       THEN /\ DispatchAttempt(p)
            /\ UNCHANGED auths
       ELSE /\ AuthenticateStarts(p)
            /\ UNCHANGED <<sent, diag>>
    /\ UNCHANGED <<issued, calls, faults, op, attempt, lastError, result, resps,
                   lastBody, delays, solo, last, pred>>

\* ------------------------------------------------- the callers of ensureAuth

\* getAuthHeaders(): ensureAuth has resolved, the header is built from the
\* cached token and returned to the caller
GetAuthHeadersReturns(p) ==
    /\ NoneSettled
    /\ pc[p] = "ready"
    /\ op[p] = "getAuthHeaders"
    /\ result' = [result EXCEPT ![p] = Returned(accessToken)]
    /\ pc' = [pc EXCEPT ![p] = "headers"]
    /\ UNCHANGED <<configVars, diag, pollVars, streamVars, syncVars, resourceVars,
                   sessionVars, now, issued, calls, faults, op, attempt,
                   lastError, sentAt, sent, resps, lastBody, delays,
                   auths, solo, last, pred>>

\* subscribe(): the streaming request is dispatched with the headers
\* getAuthHeaders returned
SubscribeFetch(p) ==
    /\ NoneSettled
    /\ pc[p] = "headers"
    /\ sent' = [sent EXCEPT ![p] = Append(@, result[p].body)]
    /\ pc' = [pc EXCEPT ![p] = "done"]
    /\ stream' = IF stream.pc = "headers"
                 THEN [stream EXCEPT !.pc = "fetch", !.openedAt = now]
                 ELSE stream
    /\ UNCHANGED <<reader, pending, arrived, yielded, logged, streamed>>
    /\ UNCHANGED <<configVars, diag, pollVars, syncVars, resourceVars,
                   sessionVars, now, issued, calls, faults, op, attempt,
                   lastError, sentAt, result, resps, lastBody, delays,
                   auths, solo, last, pred>>

\* ensureAuthAndGetAccountId(): ensureAuth has resolved
EnsureAuthAndGetAccountIdReturns(p) ==
    /\ NoneSettled
    /\ pc[p] = "ready"
    /\ op[p] = "ensureAuthAndGetAccountId"
    /\ result' = [result EXCEPT ![p] = Returned(accountId)]
    /\ pc' = [pc EXCEPT ![p] = "done"]
    /\ UNCHANGED <<configVars, diag, pollVars, streamVars, syncVars, resourceVars,
                   sessionVars, now, issued, calls, faults, op, attempt,
                   lastError, sentAt, sent, resps, lastBody, delays,
                   auths, solo, last, pred>>

\* the resource method that awaits the call resumes with its result: an
\* error leaves the method; the Transaction created is kept for the confirm
\* request; the confirmed Transaction becomes the invoice; payAddress and the
\* cancel that calls the API return what the client returned, as do get and
\* confirm; institutions returns the list in the body
ResourceSettles(p) ==
    IF resource.pc \notin {"create", "confirm", "pay", "put", "list"}
    THEN UNCHANGED resourceVars
    ELSE IF result[p].kind # "ok"
    THEN /\ resource' = [resource EXCEPT !.pc = "closed"]
         /\ settled' = Rejected(result[p])
    ELSE IF resource.pc = "create"
    THEN /\ resource' = [resource EXCEPT !.pc = "created", !.txn = result[p].body]
         /\ settled' = settled
    ELSE IF resource.pc = "confirm"
    THEN /\ resource' = [resource EXCEPT !.pc = "closed"]
         /\ settled' = LightningInvoice(result[p].body, resource.btcAmount)
    ELSE IF resource.pc = "list"
    THEN /\ resource' = [resource EXCEPT !.pc = "closed"]
         /\ settled' = FiatInstitutions
    ELSE /\ resource' = [resource EXCEPT !.pc = "closed"]
         /\ settled' = TransactionReturned(result[p].body)

\* the caller takes the result; the call's Retry State is discarded. An error
\* of getAuthHeaders leaves subscribe, which has no handler around it
Return(p) ==
    /\ pc[p] = "done"
    /\ last' = IF solo[p]
               THEN [op |-> op[p], n |-> Len(auths[p]),
                     ok |-> result[p].kind = "ok", valid |-> isTokenValid]
               ELSE NoOp
    /\ pc' = [pc EXCEPT ![p] = "idle"]
    /\ op' = [op EXCEPT ![p] = "none"]
    /\ attempt' = [attempt EXCEPT ![p] = 0]
    /\ lastError' = [lastError EXCEPT ![p] = NoError]
    /\ sentAt' = [sentAt EXCEPT ![p] = 0]
    /\ result' = [result EXCEPT ![p] = NoResult]
    /\ sent' = [sent EXCEPT ![p] = <<>>]
    /\ resps' = [resps EXCEPT ![p] = <<>>]
    /\ lastBody' = [lastBody EXCEPT ![p] = 0]
    /\ delays' = [delays EXCEPT ![p] = <<>>]
    /\ auths' = [auths EXCEPT ![p] = <<>>]
    /\ solo' = [solo EXCEPT ![p] = FALSE]
    /\ pred' = [pred EXCEPT ![p] = NoOp]
    /\ IF stream.pc = "headers"
       THEN /\ stream' = [stream EXCEPT !.pc = "closed"]
            /\ streamed' = Streamed(result[p].kind, "")
       ELSE UNCHANGED <<stream, streamed>>
    /\ ResourceSettles(p)
    /\ UNCHANGED <<reader, pending, arrived, yielded, logged>>
    /\ UNCHANGED <<configVars, diag, pollVars, syncVars, sessionVars, now, issued, calls, faults>>

\* time passes
Tick ==
    /\ NoneSettled
    /\ now < MaxTicks * TickMs
    /\ now' = now + TickMs
    /\ last' = NoOp
    /\ UNCHANGED <<configVars, diag, pollVars, streamVars, syncVars, resourceVars,
                   sessionVars, issued, calls, faults, pc, op, attempt,
                   lastError, sentAt, result, sent, resps, lastBody,
                   delays, auths, solo, pred>>

\* ------------------------------------------------------ waitForCompletion

\* the head of the while loop with the locals pl: past the deadline it throws
\* ("timedout"); otherwise it calls get(), which validates the id before it
\* sends anything and whose error ends the call ("rejected")
PollLoop(pl) ==
    IF now - pl.start < pl.timeout
    THEN IF SanitizePathParamThrows(pl.txnId)
         THEN /\ poll' = [pl EXCEPT !.pc = "rejected"]
              /\ waited' = GetError("NeutronValidationError")
         ELSE /\ poll' = [pl EXCEPT !.pc = "get"]
              /\ waited' = NoWaited
    ELSE /\ poll' = [pl EXCEPT !.pc = "timedout"]
         /\ waited' = DidNotComplete(pl.txnId, pl.timeout)

\* FINAL_STATES.includes(txn.txnState)
IsFinal(state) == state \in FINAL_STATES

\* the state test of the callback left out: onStateChange on every poll
StateChanged_EveryPoll(state, lastState) == TRUE

\* txn.txnState !== lastState
StateChanged(state, lastState) == state # lastState

\* lastState starting as the state the transaction is created in
InitialLastState_Quoted == "quoted"

\* let lastState = ""
InitialLastState == NoState

\* waitForCompletion(txnId, { intervalMs, timeoutMs, onStateChange }) is called
WaitForCompletion(id, intervalMs, timeoutMs, cb) ==
    /\ client = "HttpClient"
    /\ poll.pc = "idle"
    /\ \A p \in Procs : pc[p] = "idle"
    /\ PollLoop([pc |-> "idle",
                 txnId |-> id,
                 interval |-> IF intervalMs = Undefined THEN 3000 ELSE intervalMs,
                 timeout |-> IF timeoutMs = Undefined THEN 300000 ELSE timeoutMs,
                 onStateChange |-> cb,
                 start |-> now,
                 lastState |-> InitialLastState,
                 sleptAt |-> 0])
    /\ UNCHANGED <<observed, callbacks, naps>>
    /\ UNCHANGED <<configVars, diag, sessionVars, now, issued, calls, faults, pc, op,
                   attempt, lastError, sentAt, result, sent, resps, lastBody,
                   delays, auths, solo, last, pred, streamVars,
                   syncVars, resourceVars>>

\* get() returns the transaction: the callback on a change of state, the
\* return on a final state, the sleep otherwise
GetReturns ==
    /\ poll.pc = "get"
    /\ Len(observed) < MaxPolls
    /\ \E state \in ServerStates :
         /\ observed' = Append(observed, state)
         /\ callbacks' = IF StateChanged(state, poll.lastState) /\ poll.onStateChange
                          THEN Append(callbacks, state)
                          ELSE callbacks
         /\ IF IsFinal(state)
            THEN /\ poll' = [poll EXCEPT !.pc = "returned",
                                         !.lastState = state]
                 /\ waited' = Transaction(poll.txnId, state)
                 /\ naps' = naps
            ELSE /\ poll' = [poll EXCEPT !.pc = "sleep",
                                         !.lastState = state,
                                         !.sleptAt = now]
                 /\ waited' = waited
                 /\ naps' = naps + 1
    /\ UNCHANGED <<configVars, diag, sessionVars, now, issued, calls, faults, pc, op,
                   attempt, lastError, sentAt, result, sent, resps, lastBody,
                   delays, auths, solo, last, pred, streamVars,
                   syncVars, resourceVars>>

\* get() throws what request threw; nothing in waitForCompletion catches it
GetThrows ==
    /\ poll.pc = "get"
    /\ \E kind \in RequestErrors :
         waited' = GetError(kind)
    /\ poll' = [poll EXCEPT !.pc = "rejected"]
    /\ UNCHANGED <<observed, callbacks, naps>>
    /\ UNCHANGED <<configVars, diag, sessionVars, now, issued, calls, faults, pc, op,
                   attempt, lastError, sentAt, result, sent, resps, lastBody,
                   delays, auths, solo, last, pred, streamVars,
                   syncVars, resourceVars>>

\* the setTimeout of interval ms fires, not before the clock shows it
SleepEnds ==
    /\ poll.pc = "sleep"
    /\ now - poll.sleptAt >= (poll.interval \div TickMs) * TickMs
    /\ PollLoop(poll)
    /\ UNCHANGED <<observed, callbacks, naps>>
    /\ UNCHANGED <<configVars, diag, sessionVars, now, issued, calls, faults, pc, op,
                   attempt, lastError, sentAt, result, sent, resps, lastBody,
                   delays, auths, solo, last, pred, streamVars,
                   syncVars, resourceVars>>

\* -------------------------------------------------------------- subscribe

\* the error thrown for a transactionId that is not a UUID
InvalidTransactionId == Streamed("Error", "Invalid transactionId: must be a UUID.")

\* the consumer's first next(): the generator validates the id, clamps the
\* timeout and awaits getAuthHeaders
Subscribe(id, timeoutMs) ==
    /\ client = "HttpClient"
    /\ stream.pc = "idle"
    /\ \A p \in Procs : pc[p] = "idle"
    /\ IF ~IsUuid(id)
       THEN /\ stream' = [NoStream EXCEPT !.pc = "closed",
                                          !.transactionId = id,
                                          !.timeoutMs = TimeoutArgument(timeoutMs)]
            /\ streamed' = InvalidTransactionId
            /\ UNCHANGED <<configVars, diag, sessionVars, now, issued, calls, faults,
                           pc, op, attempt, lastError, sentAt, result, sent,
                           resps, lastBody, delays, auths, solo, last, pred>>
       ELSE /\ stream' = [NoStream EXCEPT
                             !.pc = "headers",
                             !.transactionId = id,
                             !.timeoutMs = TimeoutArgument(timeoutMs),
                             !.clampedTimeout =
                                 ClampedTimeout(TimeoutArgument(timeoutMs))]
            /\ streamed' = NoStreamed
            /\ Begin(1, "getAuthHeaders")
    /\ UNCHANGED <<reader, pending, arrived, yielded, logged, pollVars, syncVars, resourceVars>>

\* AbortSignal.timeout(clampedTimeout) has fired
Aborted == now - stream.openedAt >= stream.clampedTimeout

\* the client's variables, which the generator leaves alone once it reads
clientVars == <<configVars, diag, sessionVars, now, issued, calls, faults, pc, op,
                attempt, lastError, sentAt, result, sent, resps, lastBody,
                delays, auths, solo, last, pred>>

\* fetch resolves with a 2xx response that has a body: the reader is taken
\* and the first read awaited
StreamOpens ==
    /\ NoneSettled
    /\ stream.pc = "fetch"
    /\ ~Aborted
    /\ stream' = [stream EXCEPT !.pc = "read"]
    /\ reader' = "open"
    /\ UNCHANGED <<pending, arrived, yielded, logged, streamed, pollVars, clientVars,
                   syncVars, resourceVars>>

\* fetch resolves with a response that is not ok or has no body, or rejects,
\* or is aborted by the timeout: the error leaves the generator
StreamFailsToOpen ==
    /\ NoneSettled
    /\ stream.pc = "fetch"
    /\ \E out \in {"status", "neterr", "timeout"} :
         /\ (out = "timeout") = Aborted
         /\ streamed' = CASE out = "status" -> Streamed("Error", "SSE connection failed")
                          [] out = "neterr" -> Streamed("FetchError", "")
                          [] out = "timeout" -> Streamed("TimeoutError", "")
    /\ stream' = [stream EXCEPT !.pc = "closed"]
    /\ UNCHANGED <<reader, pending, arrived, yielded, logged, pollVars, clientVars,
                   syncVars, resourceVars>>

\* the lines the loop stops looking at after a line it could not parse
AfterMalformed_Dropped(lines) == <<>>

\* the catch block logs and the for loop goes on with the next line
AfterMalformed(lines) == Tail(lines)

\* the result of looking at lines in order up to the first yield: the line
\* yielded (NoLine if none), the lines left, and what was logged on the way
RECURSIVE Scan(_)
Scan(lines) ==
    IF lines = <<>>
    THEN [yield |-> NoLine, rest |-> <<>>, logs |-> <<>>]
    ELSE LET line == Head(lines)
         IN IF ~line.marker
            THEN Scan(Tail(lines))
            ELSE IF ParseJson(line.payload).kind = "ok"
                 THEN [yield |-> line, rest |-> Tail(lines), logs |-> <<>>]
                 ELSE LET r == Scan(AfterMalformed(lines))
                      IN [r EXCEPT !.logs = <<"SyntaxError">> \o @]

\* the generator runs over lines until it yields or has to read again
RunOver(lines, caught) ==
    LET r == Scan(lines)
    IN /\ logged' = logged \o caught \o r.logs
       /\ pending' = r.rest
       /\ IF r.yield = NoLine
          THEN /\ stream' = [stream EXCEPT !.pc = "read"]
               /\ yielded' = yielded
          ELSE /\ stream' = [stream EXCEPT !.pc = "yield"]
               /\ yielded' = Append(yielded, r.yield.payload)

\* reader.read() resolves with a chunk: the buffered start of a line is
\* completed, the complete lines are split off and looked at, and what
\* follows the last newline is buffered
ReadReturns ==
    /\ stream.pc = "read"
    /\ ~Aborted
    /\ \E kinds \in ChunkKinds, head \in LineKinds \cup {"none"} :
         LET more == IF head = "none" THEN 0 ELSE 1
             completed == IF stream.buffer = NoLine THEN <<>> ELSE <<stream.buffer>>
             lines == completed \o
                      [j \in 1..Len(kinds) |-> ServerLine(kinds[j], stream.written + j)]
             r == Scan(lines)
         IN /\ stream.written + Len(kinds) + more <= MaxLines
            /\ lines # <<>> \/ more = 1
            /\ arrived' = arrived \o lines
            /\ logged' = logged \o r.logs
            /\ pending' = r.rest
            /\ yielded' = IF r.yield = NoLine THEN yielded
                           ELSE Append(yielded, r.yield.payload)
            /\ stream' = [stream EXCEPT
                  !.pc = IF r.yield = NoLine THEN "read" ELSE "yield",
                  !.written = @ + Len(kinds) + more,
                  !.buffer = IF head = "none" THEN NoLine
                             ELSE ServerLine(head, stream.written + Len(kinds) + 1)]
    /\ UNCHANGED <<reader, streamed, pollVars, clientVars,
                   syncVars, resourceVars>>

\* the finally block: reader.cancel()
Finally == reader' = "cancelled"

\* reader.read() resolves with done: break, finally, the generator completes
ReadDone ==
    /\ stream.pc = "read"
    /\ ~Aborted
    /\ stream' = [stream EXCEPT !.pc = "closed"]
    /\ streamed' = Streamed("done", "")
    /\ Finally
    /\ UNCHANGED <<pending, arrived, yielded, logged, pollVars, clientVars,
                   syncVars, resourceVars>>

\* reader.read() rejects, the connection lost or aborted by the timeout: the
\* error passes the finally block and leaves the generator
ReadThrows ==
    /\ stream.pc = "read"
    /\ streamed' = IF Aborted THEN Streamed("TimeoutError", "")
                    ELSE Streamed("FetchError", "")
    /\ stream' = [stream EXCEPT !.pc = "closed"]
    /\ Finally
    /\ UNCHANGED <<pending, arrived, yielded, logged, pollVars, clientVars,
                   syncVars, resourceVars>>

\* the consumer asks for the next event: the generator resumes after the yield
ConsumerNext ==
    /\ stream.pc = "yield"
    /\ RunOver(pending, <<>>)
    /\ UNCHANGED <<reader, arrived, streamed, pollVars, clientVars,
                   syncVars, resourceVars>>

\* the consumer stops iterating (break, return()): the generator resumes
\* with a return at the yield, which runs the finally block
ConsumerReturns ==
    /\ stream.pc = "yield"
    /\ stream' = [stream EXCEPT !.pc = "closed"]
    /\ streamed' = Streamed("returned", "")
    /\ Finally
    /\ UNCHANGED <<pending, arrived, yielded, logged, pollVars, clientVars,
                   syncVars, resourceVars>>

\* the consumer throws into the generator (throw(err)): the yield raises err
\* inside the try block whose catch logs what it caught, and the loop goes on
ConsumerThrows ==
    /\ stream.pc = "yield"
    /\ RunOver(pending, <<"ConsumerError">>)
    /\ UNCHANGED <<reader, arrived, streamed, pollVars, clientVars,
                   syncVars, resourceVars>>

\* --------------------------------------------------------------- lightning

\* the comparison that lets zero pass
LeqZero_Strict(x) == x # NaN /\ x < 0

\* a comparison with a number, which NaN never satisfies
LeqZero(x) == x # NaN /\ x <= 0

\* createInvoice's checks of the amounts: the message of the error they
\* throw, or nothing
CreateInvoiceRejects(params) ==
    IF params.amountSats # Undefined /\ params.amountBtc # Undefined
    THEN <<"Provide either amountSats or amountBtc, not both.">>
    ELSE IF params.amountSats # Undefined
    THEN IF LeqZero(params.amountSats)
         THEN <<"amountSats must be positive.">>
         ELSE <<>>
    ELSE IF params.amountBtc # Undefined
    THEN IF LeqZero(params.amountBtc)
         THEN <<"amountBtc must be positive.">>
         ELSE <<>>
    ELSE <<"Provide either amountSats or amountBtc.">>

\* payAddress's check of the amounts
PayAddressRejects(params) ==
    IF params.amountSats # Undefined \/ params.amountBtc # Undefined
    THEN <<>>
    ELSE <<"Provide either amountSats or amountBtc.">>

\* btcAmount: amountSats / 100_000_000, or amountBtc
BtcAmount(params) ==
    IF params.amountSats # Undefined
    THEN [num |-> params.amountSats, den |-> 100000000]
    ELSE [num |-> params.amountBtc, den |-> 1]

\* a resource method called with params
Called(method, params) ==
    [NoResource EXCEPT !.op = method,
                       !.amountSats = params.amountSats,
                       !.amountBtc = params.amountBtc]

\* lightning.createInvoice(params): the checks, then the create request is
\* handed to the client
CreateInvoice(params) ==
    /\ client = "HttpClient"
    /\ resource.pc = "idle"
    /\ \A p \in Procs : pc[p] = "idle"
    /\ IF CreateInvoiceRejects(params) # <<>>
       THEN /\ resource' = [Called("createInvoice", params) EXCEPT !.pc = "closed"]
            /\ settled' = NeutronValidationError(CreateInvoiceRejects(params))
            /\ UNCHANGED clientVars
       ELSE /\ resource' = [Called("createInvoice", params) EXCEPT
                               !.pc = "create",
                               !.btcAmount = BtcAmount(params),
                               !.log = <<CreatePath>>]
            /\ settled' = NoSettled
            /\ Begin(1, "request")
    /\ UNCHANGED <<pollVars, streamVars, syncVars>>

\* createInvoice, resumed with the Transaction created: the confirm request
\* for its txnId is handed to the client
ConfirmStarts ==
    /\ resource.pc = "created"
    /\ resource' = [resource EXCEPT !.pc = "confirm",
                                    !.log = Append(@, ConfirmPath(resource.txn))]
    /\ settled' = settled
    /\ Begin(1, "request")
    /\ UNCHANGED <<pollVars, streamVars, syncVars>>

\* lightning.payAddress(address, params)
PayAddress(params) ==
    /\ client = "HttpClient"
    /\ resource.pc = "idle"
    /\ \A p \in Procs : pc[p] = "idle"
    /\ IF PayAddressRejects(params) # <<>>
       THEN /\ resource' = [Called("payAddress", params) EXCEPT !.pc = "closed"]
            /\ settled' = NeutronValidationError(PayAddressRejects(params))
            /\ UNCHANGED clientVars
       ELSE /\ resource' = [Called("payAddress", params) EXCEPT
                               !.pc = "pay",
                               !.btcAmount = BtcAmount(params),
                               !.log = <<CreatePath>>]
            /\ settled' = NoSettled
            /\ Begin(1, "request")
    /\ UNCHANGED <<pollVars, streamVars, syncVars>>

\* ------------------------------------------------------ transactions.cancel

\* transactions.cancel(_txnId), deprecated: it throws, whatever the id
Cancel(id) ==
    /\ client = "HttpClient"
    /\ resource.pc = "idle"
    /\ \A p \in Procs : pc[p] = "idle"
    /\ resource' = [NoResource EXCEPT !.pc = "closed", !.op = "cancel",
                                      !.txnId = id]
    /\ settled' = NotAvailable
    /\ UNCHANGED <<clientVars, pollVars, streamVars, syncVars>>

\* transactions.cancel(txnId) of resources/transactions.ts: the id goes into
\* the path as it is and the request is handed to the client
CancelPut(id) ==
    /\ client = "HttpClient"
    /\ resource.pc = "idle"
    /\ \A p \in Procs : pc[p] = "idle"
    /\ resource' = [NoResource EXCEPT !.pc = "put", !.op = "cancel",
                                      !.txnId = id,
                                      !.log = <<CancelPath(id)>>]
    /\ settled' = NoSettled
    /\ Begin(1, "request")
    /\ UNCHANGED <<pollVars, streamVars, syncVars>>

\* ------------------------------------------------------------ getAccountId

\* the test made on the token in place of the account id
NotAuthenticated_ByToken == accessToken = NoToken

\* !this.accountId
NotAuthenticated == accountId = NoAccount

\* getAccountId(): synchronous, it reads the cached account id; called once,
\* at any moment
GetAccountId ==
    /\ client = "HttpClient"
    /\ NoneSettled
    /\ got = NoGot
    /\ got' = IF NotAuthenticated
              THEN [kind |-> "NeutronAuthError", accountId |-> NoAccount,
                    after |-> issued]
              ELSE [kind |-> "ok", accountId |-> accountId, after |-> issued]
    /\ UNCHANGED <<sanitized, verified>>
    /\ UNCHANGED <<clientVars, pollVars, streamVars, resourceVars>>

\* ------------------------------------------------------- sanitizePathParam

\* the characters a caller may put into an id: those the pattern keeps, and
\* slash, question mark, percent, carriage return and line feed
InputChars == PathChars \cup {"/", "?", "%", "\r", "\n"}

RECURSIVE Strings(_, _)
\* the strings over an alphabet up to a length
Strings(alphabet, n) ==
    IF n = 0 THEN {<<>>}
    ELSE LET shorter == Strings(alphabet, n - 1)
         IN shorter \cup {Append(w, c) : w \in shorter, c \in alphabet}

\* the arguments sanitizePathParam is called with
SanitizeArguments ==
    {Null, UndefinedValue, Number} \cup {String(w) : w \in Strings(InputChars, MaxChars)}

\* sanitizePathParam(value, name): the value returned, or the error thrown
sanitizePathParam(value) ==
    IF value.chars = <<>> \/ value.type # "string"
    THEN [NoSanitized EXCEPT !.given = value, !.kind = "NeutronValidationError",
              !.message = "is required and must be a non-empty string."]
    ELSE IF Sanitized(value.chars) # value.chars
    THEN [NoSanitized EXCEPT !.given = value, !.kind = "NeutronValidationError",
              !.message = "contains invalid characters."]
    ELSE IF HasDotDot(Sanitized(value.chars))
    THEN [NoSanitized EXCEPT !.given = value, !.kind = "NeutronValidationError",
              !.message = "cannot contain path traversal sequences."]
    ELSE [NoSanitized EXCEPT !.given = value, !.kind = "ok",
              !.value = Sanitized(value.chars)]

\* a caller applies sanitizePathParam to a value
CallSanitizePathParam ==
    /\ sanitized = NoSanitized
    /\ verified = NoVerified
    /\ \E value \in SanitizeArguments :
          sanitized' = sanitizePathParam(value)
    /\ UNCHANGED <<got, verified>>
    /\ UNCHANGED <<clientVars, pollVars, streamVars, resourceVars>>

\* ----------------------------------------------------------- verifyWebhook

\* characters of a body: a digit, the double quote, a letter, and U+FFFD
AsciiChars == {"1", "\"", "x"}
BodyChars == AsciiChars \cup {"U+FFFD"}

\* bytes of a Buffer body: the ASCII ones, and FF, which no UTF-8 text holds
BodyBytes == AsciiChars \cup {"FF"}

RECURSIVE Utf8Decode(_)
\* body.toString("utf8"): a byte that is not UTF-8 becomes U+FFFD
Utf8Decode(bytes) ==
    IF bytes = <<>> THEN <<>>
    ELSE (IF Head(bytes) \in AsciiChars THEN <<Head(bytes)>> ELSE <<"U+FFFD">>)
         \o Utf8Decode(Tail(bytes))

RECURSIVE Utf8Encode(_)
\* the bytes update(string) hashes: the UTF-8 encoding of the string
Utf8Encode(chars) ==
    IF chars = <<>> THEN <<>>
    ELSE (IF Head(chars) \in AsciiChars THEN <<Head(chars)>>
          ELSE <<"EF", "BF", "BD">>)
         \o Utf8Encode(Tail(chars))

\* crypto.createHmac("sha256", key).update(bytes): a digest that two
\* different inputs never share
Hmac(key, bytes) == [key |-> key, over |-> bytes]

\* digest("hex"): 64 hexadecimal digits in lower case
HexDigest(mac) == [type |-> "string", hex |-> mac, case |-> "lower", len |-> 64]

\* the same digits in upper case
UpperHex(mac) == [type |-> "string", hex |-> mac, case |-> "upper", len |-> 64]

\* a text that is no digest, of a length
OtherText(n) == [type |-> "string", hex |-> NoMac, case |-> "other", len |-> n]

\* the bodies a webhook request carries
Bodies ==
    {[type |-> "string", units |-> w] : w \in Strings(BodyChars, MaxBody)}
    \cup {[type |-> "Buffer", units |-> w] : w \in Strings(BodyBytes, MaxBody)}

\* the webhook secrets, the empty one among them
Secrets == {"", "whsec", "other"}

\* the bytes of the raw body
RawBytes(body) ==
    IF body.type = "string" THEN Utf8Encode(body.units) ELSE body.units

\* typeof body === "string" ? body : body.toString("utf8")
BodyStr(body) ==
    IF body.type = "string" THEN body.units ELSE Utf8Decode(body.units)

\* the signature headers sent with a body: none, the empty string, digests of
\* the body as sent and as decoded under each secret, in lower and in upper
\* case, and texts of other lengths and of the length of a digest
Signatures(body) ==
    {NoSignature,
     [type |-> "null", hex |-> NoMac, case |-> "", len |-> 0],
     OtherText(0), OtherText(17), OtherText(64)}
    \cup {HexDigest(Hmac(k, RawBytes(body))) : k \in Secrets \ {""}}
    \cup {UpperHex(Hmac(k, RawBytes(body))) : k \in Secrets \ {""}}
    \cup {HexDigest(Hmac(k, Utf8Encode(BodyStr(body)))) : k \in Secrets \ {""}}

\* JSON.parse on the texts these characters make: a number is a run of
\* digits, a string is what stands between two double quotes
JsonParses(chars) ==
    \/ chars # <<>> /\ \A i \in 1..Len(chars) : chars[i] = "1"
    \/ /\ Len(chars) >= 2
       /\ chars[1] = "\"" /\ chars[Len(chars)] = "\""
       /\ \A i \in 2..(Len(chars) - 1) : chars[i] # "\""

\* sigBuf.length === expBuf.length
LengthsAgree(sigBuf, expBuf) == sigBuf.len = expBuf.len

\* crypto.timingSafeEqual(a, b): it throws on buffers of different lengths
TimingSafeEqual(a, b) ==
    IF a.len # b.len THEN "RangeError"
    ELSE IF a = b THEN "equal" ELSE "differ"

\* !signature
NoneGiven(signature) == signature.type # "string" \/ signature.len = 0

\* WebhooksResource.verifySignature(body, signature, secret)
verifySignature(body, signature, secret) ==
    LET called == [NoVerified EXCEPT !.body = body, !.signature = signature,
                                     !.secret = secret]
        bodyStr == BodyStr(body)
        expected == HexDigest(Hmac(secret, Utf8Encode(bodyStr)))
        compared == IF LengthsAgree(signature, expected)
                    THEN TimingSafeEqual(signature, expected)
                    ELSE "differ"
    IN IF NoneGiven(signature)
       THEN [called EXCEPT !.kind = "NeutronValidationError",
                           !.message = "Missing webhook signature header (X-Neutronpay-Signature)"]
       ELSE IF secret = ""
       THEN [called EXCEPT !.kind = "NeutronValidationError",
                           !.message = "Webhook secret is required for verification"]
       ELSE IF compared = "RangeError"
       THEN [called EXCEPT !.kind = "RangeError"]
       ELSE IF compared # "equal"
       THEN [called EXCEPT !.kind = "NeutronValidationError",
                           !.message = "Invalid webhook signature"]
       ELSE IF JsonParses(bodyStr)
       THEN [called EXCEPT !.kind = "ok", !.payload = bodyStr]
       ELSE [called EXCEPT !.kind = "SyntaxError"]

\* ------------------------------------------- identifiers placed in the path

\* the identifiers a caller passes: a well-formed one, one with a slash and
\* two dots, and one of allowed characters with two dots in a row
PathIds == TxnIds \cup {<<"t", ".", ".", "1">>}

\* a resource method that validates the identifier and then hands the
\* request for path to the client, awaiting it in phase ph
ValidatedRequest(method, id, path, ph) ==
    /\ client = "HttpClient"
    /\ resource.pc = "idle"
    /\ \A p \in Procs : pc[p] = "idle"
    /\ LET checked == sanitizePathParam(String(id))
       IN IF checked.kind # "ok"
          THEN /\ resource' = [NoResource EXCEPT !.pc = "closed", !.op = method,
                                                 !.txnId = id]
               /\ settled' = NeutronValidationError(<<checked.message>>)
               /\ UNCHANGED clientVars
          ELSE /\ resource' = [NoResource EXCEPT !.pc = ph, !.op = method,
                                                 !.txnId = id, !.log = <<path>>]
               /\ settled' = NoSettled
               /\ Begin(1, "request")
    /\ UNCHANGED <<pollVars, streamVars, syncVars>>

\* a resource method that places the identifier in the path as it is
PlainRequest(method, id, path) ==
    /\ client = "HttpClient"
    /\ resource.pc = "idle"
    /\ \A p \in Procs : pc[p] = "idle"
    /\ resource' = [NoResource EXCEPT !.pc = "put", !.op = method,
                                      !.txnId = id, !.log = <<path>>]
    /\ settled' = NoSettled
    /\ Begin(1, "request")
    /\ UNCHANGED <<pollVars, streamVars, syncVars>>

\* transactions.get(txnId)
GetTransaction(id) == ValidatedRequest("get", id, GetPath(id), "put")

\* transactions.confirm(txnId)
ConfirmTransaction(id) == ValidatedRequest("confirm", id, ConfirmPathOf(id), "put")

\* fiat.institutions(countryCode)
Institutions(code) ==
    ValidatedRequest("institutions", code, InstitutionsPath(code), "list")

\* transactions.get(txnId) of resources/transactions.ts
GetTransactionPlain(id) == PlainRequest("get", id, GetPath(id))

\* transactions.confirm(txnId) of resources/transactions.ts
ConfirmTransactionPlain(id) == PlainRequest("confirm", id, ConfirmPathOf(id))

\* Neutron.verifyWebhook(body, signature, secret)
VerifyWebhook ==
    /\ sanitized = NoSanitized
    /\ verified = NoVerified
    /\ \E body \in Bodies, secret \in Secrets :
          \E signature \in Signatures(body) :
              verified' = verifySignature(body, signature, secret)
    /\ UNCHANGED <<got, sanitized>>
    /\ UNCHANGED <<clientVars, pollVars, streamVars, resourceVars>>

\* every step of the client but the start of a call
Progress ==
    \/ Tick
    \/ \E p \in Procs : AuthenticateReturns(p)
    \/ \E p \in Procs : AuthenticateFails(p)
    \/ \E p \in Procs : SendAttempt(p)
    \/ \E p \in Procs : ApiResponse(p)
    \/ \E p \in Procs : ApiFetchFails(p)
    \/ \E p \in Procs : WakeUp(p)
    \/ \E p \in Procs : GetAuthHeadersReturns(p)
    \/ \E p \in Procs : SubscribeFetch(p)
    \/ \E p \in Procs : EnsureAuthAndGetAccountIdReturns(p)
    \/ \E p \in Procs : Return(p)

Next ==
    \/ \E p \in Procs : \E o \in Operations : Call(p, o)
    \/ Progress

\* any number of calls may be in flight on the one client
Spec == Init /\ [][Next]_vars

\* the caller awaits each call before it starts the next
CallAlone(p, o) ==
    /\ \A q \in Procs : pc[q] = "idle"
    /\ Call(p, o)

SeqNext ==
    \/ \E p \in Procs : \E o \in Operations : CallAlone(p, o)
    \/ Progress

SeqSpec == Init /\ [][SeqNext]_vars

\* one waitForCompletion on a client otherwise at rest
PollNext ==
    \/ \E id \in TxnIds, intervalMs \in IntervalOptions,
          timeoutMs \in TimeoutOptions, cb \in BOOLEAN :
            WaitForCompletion(id, intervalMs, timeoutMs, cb)
    \/ GetReturns
    \/ GetThrows
    \/ SleepEnds
    \/ Tick

PollSpec == Init /\ [][PollNext]_vars

\* one subscribe, iterated by its consumer, on a client otherwise at rest
StreamNext ==
    \/ \E id \in TransactionIds, timeoutMs \in StreamTimeouts :
            Subscribe(id, timeoutMs)
    \/ \E p \in Procs : AuthenticateReturns(p)
    \/ \E p \in Procs : AuthenticateFails(p)
    \/ \E p \in Procs : GetAuthHeadersReturns(p)
    \/ \E p \in Procs : SubscribeFetch(p)
    \/ \E p \in Procs : Return(p)
    \/ StreamOpens
    \/ StreamFailsToOpen
    \/ ReadReturns
    \/ ReadDone
    \/ ReadThrows
    \/ ConsumerNext
    \/ ConsumerReturns
    \/ ConsumerThrows
    \/ Tick

StreamSpec == Init /\ [][StreamNext]_vars

\* the resource methods, one at a time on a client otherwise at rest, with
\* getAccountId called at some moment; the workflow is short against the
\* token's life, so the clock stands still
ResourceNext ==
    \/ \E sats \in Amounts, btc \in Amounts :
            CreateInvoice([amountSats |-> sats, amountBtc |-> btc])
    \/ ConfirmStarts
    \/ \E sats \in PayAmounts, btc \in PayAmounts :
            PayAddress([amountSats |-> sats, amountBtc |-> btc])
    \/ \E id \in TxnIds : Cancel(id)
    \/ \E id \in TxnIds : CancelPut(id)
    \/ GetAccountId
    \/ \E p \in Procs : AuthenticateReturns(p)
    \/ \E p \in Procs : AuthenticateFails(p)
    \/ \E p \in Procs : SendAttempt(p)
    \/ \E p \in Procs : ApiResponse(p)
    \/ \E p \in Procs : ApiFetchFails(p)
    \/ \E p \in Procs : WakeUp(p)
    \/ \E p \in Procs : Return(p)

ResourceSpec == Init /\ [][ResourceNext]_vars

\* requests, one at a time
RequestNext ==
    \/ \E p \in Procs : CallAlone(p, "request")
    \/ Tick
    \/ \E p \in Procs : AuthenticateReturns(p)
    \/ \E p \in Procs : AuthenticateFails(p)
    \/ \E p \in Procs : SendAttempt(p)
    \/ \E p \in Procs : ApiResponse(p)
    \/ \E p \in Procs : ApiFetchFails(p)
    \/ \E p \in Procs : WakeUp(p)
    \/ \E p \in Procs : Return(p)

\* requests made one at a time on a client constructed to examine its
\* diagnostics
DebugSpec == DebugInit /\ [][RequestNext]_vars

\* the configurations termination is examined with: valid credentials and
\* every explicit maxRetries, with and without an explicit timeout
LiveConfigs ==
    {c \in Configs : /\ c.maxRetries # Undefined
                     /\ c.apiKey = "given" /\ c.apiSecret = "given"}

LiveInit == Constructed(LiveConfigs)

\* the network and the server are not held to a number of failures: the
\* count of them starts again
FaultsForgotten ==
    /\ faults = MaxFaults
    /\ faults' = 0
    /\ UNCHANGED <<configVars, diag, sessionVars, now, issued, calls, pc, op,
                   attempt, lastError, sentAt, result, sent, resps, lastBody,
                   delays, auths, solo, last, pred,
                   pollVars, streamVars, syncVars, resourceVars>>

\* the one request whose end is awaited, made on the client as constructed
OneRequest(p) ==
    /\ calls = 0
    /\ CallAlone(p, "request")

LiveNext ==
    \/ \E p \in Procs : OneRequest(p)
    \/ Tick
    \/ \E p \in Procs : AuthenticateReturns(p)
    \/ \E p \in Procs : AuthenticateFails(p)
    \/ \E p \in Procs : SendAttempt(p)
    \/ \E p \in Procs : ApiResponse(p)
    \/ \E p \in Procs : ApiFetchFails(p)
    \/ \E p \in Procs : WakeUp(p)
    \/ \E p \in Procs : Return(p)
    \/ FaultsForgotten

\* what the runtime and the network owe a call: every HTTP call is answered,
\* rejected or aborted by its timer; every backoff timer fires; a resolved
\* await is resumed; and the failures of the past do not silence the server
Fairness ==
    /\ \A p \in Procs : WF_vars(AuthenticateReturns(p) \/ AuthenticateFails(p))
    /\ \A p \in Procs : WF_vars(ApiResponse(p) \/ ApiFetchFails(p))
    /\ \A p \in Procs : WF_vars(SendAttempt(p))
    /\ \A p \in Procs : WF_vars(WakeUp(p))
    /\ \A p \in Procs : WF_vars(Return(p))
    /\ WF_vars(FaultsForgotten)

\* one request, under a runtime and a network that keep their side
LiveSpec == LiveInit /\ [][LiveNext]_vars /\ Fairness

\* the methods that take an identifier for the path, one at a time on a
\* client otherwise at rest
PathNext ==
    \/ \E id \in PathIds : GetTransaction(id)
    \/ \E id \in PathIds : ConfirmTransaction(id)
    \/ \E code \in PathIds : Institutions(code)
    \/ \E id \in PathIds : GetTransactionPlain(id)
    \/ \E id \in PathIds : ConfirmTransactionPlain(id)
    \/ \E p \in Procs : AuthenticateReturns(p)
    \/ \E p \in Procs : AuthenticateFails(p)
    \/ \E p \in Procs : SendAttempt(p)
    \/ \E p \in Procs : ApiResponse(p)
    \/ \E p \in Procs : ApiFetchFails(p)
    \/ \E p \in Procs : WakeUp(p)
    \/ \E p \in Procs : Return(p)

PathSpec == Init /\ [][PathNext]_vars

\* one call of a function that needs no client
UtilNext ==
    \/ CallSanitizePathParam
    \/ VerifyWebhook

UtilSpec == Init /\ [][UtilNext]_vars

\* ------------------------------------------------------------------ claims

Last(seq) == seq[Len(seq)]

Requests == {p \in Procs : op[p] = "request"}

\* the attempts one request may make under the configuration given to the
\* constructor: maxRetries + 1, and 3 when maxRetries is left out
AttemptBudget ==
    IF config.maxRetries = Undefined THEN 3 ELSE config.maxRetries + 1

IsSuccess(status) == status >= 200 /\ status <= 299
IsRetryableFailure(status) == status = 429 \/ status >= 500

\* C1: one call of request dispatches at most maxRetries + 1 HTTP requests to
\* the target path (3 with the default), whatever the responses are; 401, 429
\* and 5xx all draw on this one budget.
C1_AttemptBudget ==
    \A p \in Requests : Len(sent[p]) <= AttemptBudget

\* a request under the default configuration that has spent its budget on a
\* 401 and a 5xx and has its third attempt in flight
C1_Witness ==
    \E p \in Requests :
        /\ config.maxRetries = Undefined
        /\ Len(sent[p]) = 3
        /\ resps[p] = <<401, 500>>

\* C2: if the first k attempts (k <= maxRetries) are answered with 429 or 5xx
\* and attempt k+1 with a 2xx, request returns the parsed body of that 2xx
\* response; it never gives up on a 429 or 5xx while attempts remain.
C2_RetryThenSuccess ==
    \A p \in Requests :
        pc[p] = "done" =>
            /\ ( /\ Len(resps[p]) >= 1
                 /\ \A i \in 1..(Len(resps[p]) - 1) : IsRetryableFailure(resps[p][i])
                 /\ IsSuccess(Last(resps[p]))
                 /\ lastBody[p] # NotJson
                 => result[p] = Returned(lastBody[p]) )
            /\ ( /\ result[p].kind = "NeutronApiError"
                 /\ IsRetryableFailure(result[p].status)
                 => Len(resps[p]) = AttemptBudget )

\* the responses 500, 500, 200 under the default maxRetries = 2, returned
C2_Witness ==
    \E p \in Requests :
        /\ pc[p] = "done"
        /\ config.maxRetries = Undefined
        /\ resps[p] = <<500, 500, 200>>
        /\ result[p] = Returned(3)

\* C3: no delay precedes attempt 0, and the delay slept before attempt n is
\* 2^(n-1) seconds, so a request that needs k retries sleeps exactly the k
\* delays 1s, 2s, 4s, ... in that order, whatever failure caused each retry.
C3_BackoffSchedule ==
    \A p \in Requests :
        /\ \A i \in 1..Len(delays[p]) : delays[p][i] = 1000 * Pow2(i - 1)
        /\ Len(sent[p]) = 0 => Len(delays[p]) = 0
        /\ Len(sent[p]) >= 1 => Len(delays[p]) \in {Len(sent[p]) - 1, Len(sent[p])}
        /\ pc[p] = "api" => Len(delays[p]) = Len(sent[p]) - 1
        /\ pc[p] = "done" /\ result[p].kind = "ok" => Len(delays[p]) = Len(sent[p]) - 1

\* a request that was retried after a 401 and again after a 429 and then
\* succeeded, having slept 1s and 2s
C3_Witness ==
    \E p \in Requests :
        /\ pc[p] = "done"
        /\ resps[p] = <<401, 429, 200>>
        /\ delays[p] = <<1000, 2000>>

\* the timeout the constructor was given, 30000 ms when it was left out
TimeoutGiven == IF config.timeout = Undefined THEN 30000 ELSE config.timeout

\* C4: on the responses 401, 200 with a retry available, request clears the
\* cached token on the 401, authenticates successfully before the next
\* attempt, sends that attempt with the token just obtained, and returns the
\* 200 body without an error.
C4_ReauthAfter401 ==
    \A p \in Requests :
        /\ pc[p] = "sleep" /\ Last(resps[p]) = 401 => accessToken = NoToken
        /\ \A i \in 1..Len(resps[p]) :
              resps[p][i] = 401 /\ Len(sent[p]) > i =>
                  \E j \in 1..Len(auths[p]) :
                      /\ auths[p][j].at = i
                      /\ auths[p][j].out = "ok"
                      /\ auths[p][j].tok = sent[p][i + 1]
                      /\ sent[p][i + 1] # NoToken
                      /\ sent[p][i + 1] # sent[p][i]
        /\ ( /\ pc[p] = "done"
             /\ Len(resps[p]) = 2
             /\ resps[p][1] = 401
             /\ IsSuccess(resps[p][2])
             /\ lastBody[p] # NotJson
             => result[p] = Returned(lastBody[p]) )

\* the responses 401, 200: the call has returned the 200 body, its second
\* attempt sent with the token of the authentication made after the 401
C4_Witness ==
    \E p \in Requests :
        /\ pc[p] = "done"
        /\ resps[p] = <<401, 200>>
        /\ result[p] = Returned(2)
        /\ Len(auths[p]) = 2
        /\ sent[p] = <<1, 2>>

\* C5: a non-2xx response that is not 401, not 429 and below 500 ends the
\* call on that attempt with a NeutronApiError of that status, isRetryable
\* false, with no further attempt and no backoff; a first response of 400
\* means one attempt.
C5_NonRetryableFailsAtOnce ==
    \A p \in Requests :
        \A i \in 1..Len(resps[p]) :
            LET s == resps[p][i]
            IN  s > 0 /\ ~IsSuccess(s) /\ s # 401 /\ s # 429 /\ s < 500 =>
                    /\ i = Len(resps[p])
                    /\ pc[p] = "done"
                    /\ result[p].kind = "NeutronApiError"
                    /\ result[p].status = s
                    /\ ~isRetryable(result[p])
                    /\ Len(sent[p]) = i
                    /\ Len(delays[p]) = i - 1

\* a first response of 400 with retries available: one attempt, no delay
C5_Witness ==
    \E p \in Requests :
        /\ pc[p] = "done"
        /\ maxRetries >= 1
        /\ resps[p] = <<400>>
        /\ Len(sent[p]) = 1
        /\ delays[p] = <<>>
        /\ result[p].status = 400

\* C6: an HTTP call of request that does not complete within the configured
\* timeout is aborted and request fails with a NeutronTimeoutError carrying
\* the configured duration; nothing is dispatched after it, however many
\* attempts remain.
C6_TimeoutNotRetried ==
    \A p \in Requests :
        /\ \A i \in 1..Len(resps[p]) :
              resps[p][i] = FetchAborted =>
                  /\ i = Len(resps[p])
                  /\ pc[p] = "done"
                  /\ result[p] = NeutronTimeoutError(TimeoutGiven)
                  /\ Len(sent[p]) = i
        /\ \A j \in 1..Len(auths[p]) :
              auths[p][j].out = "timeout" =>
                  /\ j = Len(auths[p])
                  /\ pc[p] = "done"
                  /\ result[p] = NeutronTimeoutError(TimeoutGiven)
                  /\ Len(sent[p]) = auths[p][j].at

\* the first attempt of a request with retries left is aborted by the timeout
C6_Witness ==
    \E p \in Requests :
        /\ pc[p] = "done"
        /\ maxRetries >= 1
        /\ resps[p] = <<FetchAborted>>
        /\ result[p].kind = "NeutronTimeoutError"

\* C7: a request whose HTTP call fails with a network error is retried, up to
\* maxRetries times, before the error is surfaced.
C7_NetworkErrorRetried ==
    \A p \in Requests :
        pc[p] = "done" /\ result[p] = FetchError /\ Len(resps[p]) >= 1
            /\ Last(resps[p]) = FetchRejected
        => Len(sent[p]) = AttemptBudget

\* C8: when every one of the maxRetries + 1 attempts receives a 401, 429 or
\* 5xx, request fails with the NeutronApiError of the last response (its
\* status and body), after exactly maxRetries + 1 attempts.
C8_LastErrorOnExhaustion ==
    \A p \in Requests :
        LET allFail == \A i \in 1..Len(resps[p]) :
                           resps[p][i] = 401 \/ IsRetryableFailure(resps[p][i])
            lastErr == NeutronApiError(Last(resps[p]),
                           IF lastBody[p] = NotJson THEN EmptyObject ELSE lastBody[p])
        IN  pc[p] = "done" /\ Len(resps[p]) >= 1 /\ allFail =>
                /\ Len(resps[p]) = AttemptBudget => result[p] = lastErr
                /\ result[p].kind = "NeutronApiError" =>
                       /\ Len(resps[p]) = AttemptBudget
                       /\ Len(sent[p]) = AttemptBudget
                       /\ result[p] = lastErr

\* maxRetries = 1: a 401 and then a 500 exhaust the attempts; the error is
\* the one of the 500, with the body of the second response
C8_Witness ==
    \E p \in Requests :
        /\ pc[p] = "done"
        /\ config.maxRetries = 1
        /\ resps[p] = <<401, 500>>
        /\ result[p] = NeutronApiError(500, 2)

\* C9: whenever an HTTP request to a resource path is dispatched, by request
\* on any attempt or by the caller of getAuthHeaders, the client holds a valid
\* Session (token and account id non-empty, now < expiresAt - 60000), under
\* every interleaving of concurrent calls.
C9_ValidSessionAtDispatch ==
    [][\A p \in Procs : Len(sent'[p]) > Len(sent[p]) => isTokenValid']_vars

\* the operations that consist of one ensureAuth
EnsureOps == {"getAuthHeaders", "ensureAuthAndGetAccountId"}

\* the authentication requests issued by the ensureAuth that opens a call
InitialAuths(p) == Cardinality({j \in 1..Len(auths[p]) : auths[p][j].at = 0})

\* C10 as stated: two calls of ensureAuth in immediate succession issue at
\* most one authentication request in total.
C10_AtMostOneAuth ==
    \A p \in Procs :
        pred[p].op \in EnsureOps => pred[p].n + InitialAuths(p) <= 1

\* C10 as amended: two calls of ensureAuth in immediate succession issue at
\* most one authentication request in total when the first call succeeds and
\* leaves a Session that is valid (a token more than 60 s from its expiry);
\* the second call then issues none.
C10_AtMostOneAuthWhenValid ==
    \A p \in Procs :
        pred[p].op \in EnsureOps /\ pred[p].ok /\ pred[p].valid =>
            /\ pred[p].n <= 1
            /\ InitialAuths(p) = 0

\* ensureAuthAndGetAccountId authenticated once and left a valid Session; the
\* request started right after it has passed its ensureAuth
C10_Witness ==
    \E p \in Procs :
        /\ pred[p] = [op |-> "ensureAuthAndGetAccountId", n |-> 1,
                      ok |-> TRUE, valid |-> TRUE]
        /\ op[p] = "request"
        /\ pc[p] = "api"
        /\ Len(auths[p]) = 0

\* C11: constructing the client performs no network activity: with a missing
\* or empty apiKey or apiSecret the constructor fails with NeutronAuthError and
\* nothing is ever sent; with both given it succeeds, and no HTTP request, the
\* authentication included, is issued before the first operation is called.
C11_ConstructorOffline ==
    /\ (Falsy(config.apiKey) \/ Falsy(config.apiSecret)) =>
           /\ client = "NeutronAuthError"
           /\ calls = 0
    /\ ~(Falsy(config.apiKey) \/ Falsy(config.apiSecret)) =>
           client = "HttpClient"
    /\ calls = 0 =>
           /\ issued = 0
           /\ accessToken = NoToken
           /\ \A p \in Procs :
                pc[p] = "idle" /\ sent[p] = <<>> /\ auths[p] = <<>>

\* the constructor has thrown on an empty apiSecret, and time has passed
\* without any request
C11_Witness ==
    /\ config.apiKey = "given"
    /\ config.apiSecret = "empty"
    /\ client = "NeutronAuthError"
    /\ now > 0
    /\ \A p \in Procs : sent[p] = <<>> /\ auths[p] = <<>>

\* a sequence with every element equal to the one right before it removed
RECURSIVE Dedup(_)
Dedup(seq) ==
    IF Len(seq) <= 1 THEN seq
    ELSE LET front == Dedup(SubSeq(seq, 1, Len(seq) - 1))
         IN IF seq[Len(seq)] = seq[Len(seq) - 1]
            THEN front
            ELSE Append(front, seq[Len(seq)])

\* C12: waitForCompletion invokes onStateChange once per distinct transition,
\* never once per poll: the states passed to the callback are the states the
\* polls observed, in order, with every state equal to the one observed right
\* before it removed.
C12_CallbackPerTransition ==
    /\ poll.onStateChange => callbacks = Dedup(observed)
    /\ ~poll.onStateChange => callbacks = <<>>

\* the polls observed A, A, B, A and the callback was given A, B, A
C12_Witness ==
    /\ poll.onStateChange
    /\ observed = <<"quoted", "quoted", "srccreated", "quoted">>
    /\ callbacks = <<"quoted", "srccreated", "quoted">>

\* the polls of a call with a callback observed quoted, srccreated, completed
QuotedCreatedCompleted ==
    /\ poll.onStateChange
    /\ observed = <<"quoted", "srccreated", "completed">>

\* C13 as stated: polling a transaction that goes quoted, srccreated,
\* completed from poll to poll invokes onStateChange exactly twice, for
\* srccreated and for completed and not for the initial quoted, and returns
\* once the state is final.
C13_TwoCallbacks ==
    QuotedCreatedCompleted =>
        /\ callbacks = <<"srccreated", "completed">>
        /\ poll.pc = "returned"
        /\ waited = Transaction(poll.txnId, "completed")

\* C13 as amended: polling a transaction that goes quoted, srccreated,
\* completed from poll to poll invokes onStateChange exactly three times, for
\* quoted, for srccreated and for completed in this order, and returns the
\* completed transaction right after the third poll.
C13_ThreeCallbacks ==
    QuotedCreatedCompleted =>
        /\ callbacks = <<"quoted", "srccreated", "completed">>
        /\ poll.pc = "returned"
        /\ waited = Transaction(poll.txnId, "completed")
        /\ naps = 2

\* the third poll has answered completed
C13_Witness ==
    /\ QuotedCreatedCompleted
    /\ poll.pc = "returned"
    /\ Len(callbacks) = 3

\* C14: waitForCompletion returns if and only if a poll observed a state of
\* the exported FinalStates (completed, expired, rejected, error,
\* usercanceled); it returns the transaction of the first such poll without
\* sleeping or polling again, and never a transaction in any other state.
C14_ReturnsIffFinalState ==
    /\ poll.pc = "returned" =>
           /\ waited.kind = "Transaction"
           /\ waited.txnState \in FinalStates
           /\ waited.txnState = Last(observed)
           /\ naps = Len(observed) - 1
    /\ \A i \in 1..Len(observed) :
           observed[i] \in FinalStates =>
               /\ i = Len(observed)
               /\ poll.pc = "returned"

\* C15: when no poll has observed a final state before timeoutMs has elapsed,
\* waitForCompletion fails with the timeout error of the SDK, naming the
\* transaction id and the timeout; it never returns a transaction that is not
\* final.
C15_TimeoutErrorKind ==
    /\ poll.pc = "timedout" =>
           /\ waited.kind = "NeutronTimeoutError"
           /\ waited.txnId = poll.txnId
           /\ waited.ms = poll.timeout
    /\ poll.pc = "returned" => IsFinal(waited.txnState)

\* the generator has run for an identifier that is not a UUID
InvalidIdGiven == stream.pc # "idle" /\ ~IsUuid(stream.transactionId)

\* C16: for an identifier that does not match the canonical UUID format,
\* subscribe fails with NeutronValidationError, and neither an authentication
\* request nor the streaming connection is issued.
C16_ValidationErrorKind ==
    InvalidIdGiven =>
        /\ stream.pc = "closed"
        /\ streamed.kind = "NeutronValidationError"
        /\ reader = "none"
        /\ calls = 0
        /\ issued = 0
        /\ \A p \in Procs : auths[p] = <<>> /\ sent[p] = <<>>

\* the timeout the stream is to run under for a requested timeoutMs
ExpectedStreamTimeout(timeoutMs) ==
    IF timeoutMs < 5000 THEN 5000
    ELSE IF timeoutMs > 300000 THEN 300000
    ELSE timeoutMs

\* C17: the timeout applied to a subscribe stream is the requested timeoutMs
\* (60000 when none is given) clamped into [5000, 300000]; a value outside
\* the range is never rejected, and the stream is aborted by the timeout only
\* once the clamped time has passed since the connection was requested.
C17_ClampedTimeout ==
    IsUuid(stream.transactionId) =>
        /\ stream.clampedTimeout = ExpectedStreamTimeout(stream.timeoutMs)
        /\ stream.clampedTimeout >= 5000 /\ stream.clampedTimeout <= 300000
        /\ streamed.kind = "Error" => streamed.message = "SSE connection failed"
        /\ streamed.kind = "TimeoutError" =>
               now - stream.openedAt >= ExpectedStreamTimeout(stream.timeoutMs)

\* a stream asked for with 4999 ms was opened and aborted by the 5000 ms timer
C17_Witness ==
    /\ IsUuid(stream.transactionId)
    /\ stream.timeoutMs = 4999
    /\ stream.clampedTimeout = 5000
    /\ streamed.kind = "TimeoutError"
    /\ reader = "cancelled"

\* the payloads of the well-formed data lines among lines, in order
Events(lines) ==
    LET good == SelectSeq(lines, LAMBDA l : l.marker /\ l.payload # NotJson)
    IN [i \in 1..Len(good) |-> good[i].payload]

\* the data lines among lines that are not JSON
Malformed(lines) == SelectSeq(lines, LAMBDA l : l.marker /\ l.payload = NotJson)

\* the lines the generator has looked at
LookedAt == SubSeq(arrived, 1, Len(arrived) - Len(pending))

\* C18: a malformed data frame is logged and skipped without ending the
\* sequence: the events yielded are exactly the well-formed data frames among
\* the lines looked at, unchanged and in arrival order, the frames not yet
\* looked at are all still to come, every malformed frame looked at was
\* logged, and once the reader is open the generator ends only with the stream,
\* with the consumer, or with an error of the connection.
C18_MalformedSkipped ==
    /\ Len(pending) <= Len(arrived)
    /\ pending = SubSeq(arrived, Len(arrived) - Len(pending) + 1, Len(arrived))
    /\ yielded = Events(LookedAt)
    /\ Len(SelectSeq(logged, LAMBDA e : e = "SyntaxError")) = Len(Malformed(LookedAt))
    /\ reader # "none" =>
           streamed.kind \in {"none", "done", "returned", "TimeoutError", "FetchError"}
    /\ (stream.pc = "read" /\ reader = "open") => pending = <<>>

\* an event, a malformed frame and another event have arrived, and both events
\* were yielded with the malformed frame logged in between
C18_Witness ==
    /\ arrived = <<Line(TRUE, 1), Line(TRUE, NotJson), Line(TRUE, 3)>>
    /\ yielded = <<1, 3>>
    /\ logged = <<"SyntaxError">>

\* the consumer has thrown an exception into the iterator
ThrownInto == \E i \in 1..Len(logged) : logged[i] = "ConsumerError"

\* C19: once the streaming connection is established, the reader is released
\* on every exit path: the end of the stream, the consumer stopping early, the
\* timeout aborting the connection, an exception raised while reading, and an
\* exception thrown into the iterator by the consumer.
C19_ReaderReleased ==
    /\ (stream.pc = "closed" /\ reader # "none") => reader = "cancelled"
    /\ ThrownInto => (stream.pc = "closed" /\ reader = "cancelled")

\* the HTTP status codes
HttpStatuses == 100..599

\* the errors built from a response that the calls in flight hold
ApiErrorsHeld ==
    {e \in {result[p] : p \in Procs} \cup {lastError[p] : p \in Procs} :
        e.kind = "NeutronApiError"}

\* the classification of a status
ClassifiedAs(err, s) ==
    /\ err.status = s
    /\ isRetryable(err) <=> (s \in {429} \cup (500..599))
    /\ isAuthError(err) <=> s \in {401, 403}
    /\ isRateLimited(err) <=> s \in {429}

\* every status code is classified so
EveryStatusClassified ==
    \A s \in HttpStatuses : ClassifiedAs(NeutronApiError(s, EmptyObject), s)

\* C20: for every HTTP status s, a NeutronApiError built from s has
\* isRetryable = (s = 429 or s >= 500), isAuthError = (s = 401 or s = 403),
\* isRateLimited = (s = 429), and its status field is s; so has every error
\* request builds from a response, whose status is that of the response.
C20_Classification ==
    /\ EveryStatusClassified
    /\ \A e \in ApiErrorsHeld : ClassifiedAs(e, e.status)
    /\ \A p \in Procs :
           result[p].kind = "NeutronApiError" => result[p].status = Last(resps[p])

\* a request has failed with the error of a 403 response, an auth error that
\* is neither retryable nor rate limited
C20_Witness ==
    \E p \in Procs :
        /\ result[p] = NeutronApiError(403, lastBody[p])
        /\ Last(resps[p]) = 403
        /\ isAuthError(result[p])
        /\ ~isRetryable(result[p])

\* the account id the n-th successful authentication stored
AccountOfAuth(n) == n

\* C21: getAccountId fails with NeutronAuthError if no authentication has ever
\* succeeded on the client; otherwise it returns the accountId of the most
\* recent successful authentication; it never issues a network request.
C21_GetAccountId ==
    [][got' # got =>
          /\ IF issued = 0
             THEN got'.kind = "NeutronAuthError"
             ELSE /\ got'.kind = "ok"
                  /\ got'.accountId = AccountOfAuth(issued)
          /\ UNCHANGED <<pc, sent, auths, sentAt, issued, sessionVars>>]_vars

\* getAccountId has returned the account of the second authentication, made
\* after a 401 had cleared the token of the first
C21_Witness ==
    /\ got = [kind |-> "ok", accountId |-> 2, after |-> 2]
    /\ resource.op = "createInvoice"

\* an amount was passed
Given(x) == x # Undefined

\* an amount that is a number and not above zero
NotPositive(x) == x \in {-2, 0}

\* the amounts createInvoice is to refuse: neither, both, or one not above zero
RefusedAmounts(r) ==
    \/ ~Given(r.amountSats) /\ ~Given(r.amountBtc)
    \/ Given(r.amountSats) /\ Given(r.amountBtc)
    \/ NotPositive(r.amountSats)
    \/ NotPositive(r.amountBtc)

\* the call ended in a NeutronValidationError with nothing sent: no call of
\* the client was started, so no authentication and no request went out
RefusedUnsent ==
    /\ resource.pc = "closed"
    /\ settled.kind = "NeutronValidationError"
    /\ resource.log = <<>>
    /\ calls = 0
    /\ issued = 0
    /\ \A p \in Procs : pc[p] = "idle" /\ sent[p] = <<>> /\ auths[p] = <<>>

\* C22: createInvoice with neither amount, with both, or with an amount <= 0
\* fails with NeutronValidationError and issues no HTTP request (no
\* authentication, no create, no confirm), and with any other amounts it is
\* not refused; payAddress with neither amount fails likewise before any
\* HTTP request.
C22_AmountValidation ==
    /\ resource.op = "createInvoice" =>
          IF RefusedAmounts(resource)
          THEN RefusedUnsent
          ELSE settled.kind # "NeutronValidationError" /\ resource.log # <<>>
    /\ resource.op = "payAddress" /\ ~Given(resource.amountSats)
           /\ ~Given(resource.amountBtc) => RefusedUnsent

\* createInvoice({ amountSats: 0 }) was refused
C22_Witness ==
    /\ resource.op = "createInvoice"
    /\ resource.amountSats = 0
    /\ resource.amountBtc = Undefined
    /\ settled = NeutronValidationError(<<"amountSats must be positive.">>)
    /\ calls = 0

\* createInvoice is awaiting the client in phase ph and resumes in this step
Resumes(ph) == resource.op = "createInvoice" /\ resource.pc = ph /\ resource'.pc # ph

\* C23: createInvoice issues the create request first, then the confirm
\* request for exactly the txnId that create returned, and returns an invoice
\* only after the confirm request has succeeded; if create fails no confirm is
\* issued, and if confirm fails createInvoice fails with that error and
\* returns no invoice.
C23_AutoConfirm ==
    [][/\ Resumes("idle") /\ resource'.pc # "closed" =>
              resource'.pc = "create" /\ resource'.log = <<CreatePath>>
       /\ Resumes("create") =>
              IF result[1].kind = "ok" /\ IsSuccess(Last(resps[1]))
              THEN /\ resource'.pc = "created"
                   /\ resource'.txn = lastBody[1]
                   /\ settled' = NoSettled
              ELSE /\ resource'.pc = "closed"
                   /\ resource'.log = <<CreatePath>>
                   /\ settled'.kind = result[1].kind
                   /\ settled'.error = result[1]
                   /\ settled'.kind # "LightningInvoice"
       /\ Resumes("created") =>
              /\ resource'.pc = "confirm"
              /\ resource'.log =
                     <<CreatePath,
                       [method |-> "PUT",
                        path |-> "/api/v2/transaction/{txnId}/confirm",
                        txnId |-> TxnIdOf(resource.txn)]>>
       /\ Resumes("confirm") =>
              /\ resource'.pc = "closed"
              /\ Len(resource'.log) = 2
              /\ IF result[1].kind = "ok" /\ IsSuccess(Last(resps[1]))
                 THEN settled'.kind = "LightningInvoice"
                 ELSE /\ settled'.kind = result[1].kind
                      /\ settled'.error = result[1]
                      /\ settled'.kind # "LightningInvoice"
       /\ settled'.kind = "LightningInvoice" /\ settled # settled' =>
              resource.pc = "confirm" /\ result[1].kind = "ok"
       /\ resource.op = "createInvoice" /\ Len(sent'[1]) > Len(sent[1]) =>
              resource'.pc \in {"create", "confirm"}
      ]_vars

\* the create request was retried and answered with the second document; the
\* confirm request for the txnId of that document succeeded and the invoice
\* was returned
C23_Witness ==
    /\ resource.op = "createInvoice"
    /\ resource.pc = "closed"
    /\ resource.txn = 2
    /\ resource.log = <<CreatePath, ConfirmPath(2)>>
    /\ settled.kind = "LightningInvoice"

\* the message holds the phrase
Includes(message, phrase) == \E i \in 1..Len(message) : message[i] = phrase

\* C26: transactions.cancel(txnId) always fails, for every txnId, with an
\* error whose message says the operation is not available, and it issues no
\* HTTP request, neither an authentication nor a cancel call.
C26_CancelNotAvailable ==
    resource.op = "cancel" =>
        /\ resource.pc = "closed"
        /\ settled.kind = "Error"
        /\ Includes(settled.message, "not available")
        /\ resource.log = <<>>
        /\ calls = 0
        /\ \A p \in Procs : pc[p] = "idle" /\ sent[p] = <<>> /\ auths[p] = <<>>

\* a non-empty string of letters, digits, hyphens, underscores and dots only,
\* with no two dots in a row
WellFormedParam(value) ==
    /\ value.type = "string"
    /\ Len(value.chars) >= 1
    /\ \A i \in 1..Len(value.chars) :
           value.chars[i] \notin {"/", "?", "%", "\r", "\n"}
    /\ \A i \in 1..Len(value.chars) :
           value.chars[i] = "." => i = Len(value.chars) \/ value.chars[i + 1] # "."

\* C24: sanitizePathParam(value, name) returns value unchanged if and only if
\* value is a non-empty string of characters in [a-zA-Z0-9-_.] with no ".."
\* in it; for every other input (empty, null, undefined, holding a slash, a
\* question mark, a percent sign, CR, LF, or "..") it throws
\* NeutronValidationError.
C24_SanitizePathParam ==
    sanitized.kind # "none" =>
        IF WellFormedParam(sanitized.given)
        THEN sanitized.kind = "ok" /\ sanitized.value = sanitized.given.chars
        ELSE sanitized.kind = "NeutronValidationError" /\ sanitized.value = <<>>

\* an id of allowed characters with ".." after its first character is refused
C24_Witness ==
    /\ sanitized.given = String(<<"t", ".", ".">>)
    /\ sanitized.kind = "NeutronValidationError"
    /\ sanitized.message = "cannot contain path traversal sequences."

\* the signature is the lower-case hexadecimal HMAC-SHA256 of the raw body
\* under a secret that is not empty
SignedRawBody(v) ==
    /\ v.secret # ""
    /\ v.signature = HexDigest(Hmac(v.secret, RawBytes(v.body)))

\* C25: verifyWebhook(body, signature, secret) returns the parsed payload
\* only when signature is the lower-case hex HMAC-SHA256 of the raw body
\* (string or Buffer) under secret; for any other signature, a missing or
\* empty signature or an empty secret it throws NeutronValidationError and
\* returns no payload.
C25_VerifyWebhook ==
    verified.kind # "none" =>
        /\ verified.kind = "ok" => SignedRawBody(verified)
        /\ ~SignedRawBody(verified) =>
               verified.kind = "NeutronValidationError" /\ verified.payload = <<>>

\* the Session is not valid: the token or the account id is empty, or the
\* expiry is 60000 ms away or less
SessionInvalid ==
    \/ accessToken = NoToken
    \/ accountId = NoAccount
    \/ now >= tokenExpiry - 60000

\* C27: ensureAuth issues an authentication request if and only if the
\* Session is not valid at the time of the call (token or account id empty, or
\* now >= expiresAt - 60000); with a valid Session it sends nothing and
\* changes no state; at now = expiresAt - 60000 exactly it re-authenticates.
C27_EnsureAuth ==
    [][\A p \in Procs :
          pc[p] = "idle" /\ pc'[p] # "idle" =>
              IF SessionInvalid
              THEN /\ pc'[p] = "auth"
                   /\ auths'[p] = <<[at |-> 0, out |-> "pending", tok |-> NoToken]>>
              ELSE /\ pc'[p] = "ready"
                   /\ auths'[p] = <<>>
                   /\ UNCHANGED <<sent, sessionVars, issued>>]_vars

\* a call whose ensureAuth authenticates although token and account id are
\* cached, at the instant now = expiresAt - 60000
C27_Witness ==
    \E p \in Procs :
        /\ pc[p] = "auth"
        /\ auths[p] = <<[at |-> 0, out |-> "pending", tok |-> NoToken]>>
        /\ accessToken # NoToken
        /\ accountId # NoAccount
        /\ now = tokenExpiry - 60000

\* C28: whenever a request receives a 401 response the cached access token
\* is cleared, whether or not attempts remain; after a request that exhausts
\* its attempts on a 401, or runs with maxRetries = 0, the token is empty.
C28_TokenClearedOn401 ==
    [][\A p \in Requests :
          Len(resps'[p]) > Len(resps[p]) /\ Last(resps'[p]) = 401 =>
              accessToken' = NoToken]_vars

\* an authenticate call of p fails in this step
AuthFailsNow(p) == pc[p] = "auth" /\ pc'[p] = "done"

\* an authenticate call of p succeeds in this step
AuthSucceedsNow(p) == pc[p] = "auth" /\ pc'[p] = "ready"

\* C29: the Session fields (accountId, accessToken, expiry) are set only by a
\* successful authenticate call; an authenticate that fails (the endpoint
\* answers non-2xx, giving NeutronAuthError; the call times out; the success
\* body cannot be parsed) leaves all three exactly as they were before the
\* call.
C29_FailedAuthKeepsSession ==
    [][/\ \A p \in Procs :
             pc[p] = "auth" /\ ~AuthSucceedsNow(p) => UNCHANGED sessionVars
       /\ \A p \in Procs :
             AuthFailsNow(p) =>
                 /\ result'[p].kind \in {"NeutronAuthError", "NeutronTimeoutError",
                                         "SyntaxError", "FetchError"}
                 /\ Last(auths'[p]).out = "reject" <=>
                        result'[p].kind = "NeutronAuthError"
       /\ ( \/ accountId' # accountId
            \/ tokenExpiry' # tokenExpiry
            \/ accessToken' \notin {accessToken, NoToken} )
          => \E p \in Procs : AuthSucceedsNow(p)]_vars

\* a token is cached and the re-authentication made for a later call, the
\* token being within a minute of its expiry, is rejected: the Session is
\* that of the first authentication
C29_Witness ==
    \E p \in Procs :
        /\ pc[p] = "done"
        /\ Len(auths[p]) = 1
        /\ auths[p][1].out = "reject"
        /\ result[p].kind = "NeutronAuthError"
        /\ accessToken = 1 /\ accountId = 1 /\ tokenExpiry # 0
        /\ issued = 1

\* C30: an authentication failure is not retried by request: if the token
\* endpoint rejects the authentication, in the initial ensureAuth or in the
\* re-authentication before a retry, request fails with NeutronAuthError,
\* sends no further authentication request for that call and dispatches no
\* further attempt on the target path.
C30_AuthFailureNotRetried ==
    \A p \in Requests :
        \A j \in 1..Len(auths[p]) :
            auths[p][j].out = "reject" =>
                /\ j = Len(auths[p])
                /\ pc[p] = "done"
                /\ result[p].kind = "NeutronAuthError"
                /\ Len(sent[p]) = auths[p][j].at
                /\ Len(resps[p]) = auths[p][j].at
                /\ Len(delays[p]) = auths[p][j].at

\* with retries left, the first attempt drew a 401 and the re-authentication
\* before the retry was rejected: one attempt, two authentications, no more
C30_Witness ==
    \E p \in Requests :
        /\ pc[p] = "done"
        /\ maxRetries = 2
        /\ resps[p] = <<401>>
        /\ Len(sent[p]) = 1
        /\ Len(auths[p]) = 2
        /\ auths[p][1].out = "ok"
        /\ auths[p][2] = [at |-> 1, out |-> "reject", tok |-> NoToken]
        /\ result[p].kind = "NeutronAuthError"

\* the expiry a response received now may carry
ExpiriesNow == {now + life : life \in TokenLifetimes}

\* this step stores one authentication response: the three fields are
\* written together, from the response with the serial issued'
StoresOneResponse ==
    /\ issued' = issued + 1
    /\ accountId' = issued'
    /\ accessToken' = issued'
    /\ tokenExpiry' \in ExpiriesNow

\* C31: under any interleaving of concurrent authenticate() calls the Session
\* is replaced as a whole record, the last writer winning: whenever
\* accessToken is not empty, accountId, accessToken and expiry come from one
\* and the same authentication response, never a mix of two.
C31_SessionWholeRecord ==
    [][/\ accessToken' # NoToken => accountId' = accessToken'
       /\ ( \/ accountId' # accountId
            \/ tokenExpiry' # tokenExpiry
            \/ accessToken' \notin {accessToken, NoToken} )
          => StoresOneResponse]_vars

\* two requests in flight at once have each authenticated; the Session is
\* that of the response stored last
C31_Witness ==
    /\ \A p \in Procs : pc[p] \notin {"idle", "done"} /\ op[p] = "request"
    /\ auths[1] = <<[at |-> 0, out |-> "ok", tok |-> 1]>>
    /\ auths[2] = <<[at |-> 0, out |-> "ok", tok |-> 2]>>
    /\ sent[1] = <<>> /\ sent[2] = <<>>
    /\ accessToken = 2 /\ accountId = 2 /\ issued = 2

\* the HTTP call of p in flight is aborted by the timeout in this step
TimesOutNow(p) ==
    /\ pc[p] \in {"auth", "api"}
    /\ pc'[p] = "done"
    /\ result'[p].kind = "NeutronTimeoutError"

\* everything the client holds for the call q
CallState(q) ==
    <<pc[q], op[q], attempt[q], lastError[q], sentAt[q], result[q], sent[q],
      resps[q], lastBody[q], delays[q], auths[q]>>

\* C32: timeouts are enforced per HTTP call: when a call in flight times out,
\* its own timer has run for the configured timeout, only its caller fails
\* with NeutronTimeoutError, and every other call in flight on the client
\* (sibling request or authentication) is left exactly as it was, to complete
\* by its own response and its own timer.
C32_TimeoutPerCall ==
    [][\A p \in Procs :
          TimesOutNow(p) =>
              /\ now - sentAt[p] >= timeout
              /\ result'[p] = NeutronTimeoutError(timeout)
              /\ \A q \in Procs \ {p} : CallState(q)' = CallState(q)
              /\ UNCHANGED <<sessionVars, now>>]_vars

\* one call has been aborted by its timer while a sibling dispatched later
\* is still in flight, its own timer not yet due
C32_Witness ==
    \E p \in Procs, q \in Procs :
        /\ p # q
        /\ pc[p] = "done"
        /\ result[p] = NeutronTimeoutError(timeout)
        /\ pc[q] = "api"
        /\ sentAt[q] > sentAt[p]
        /\ now - sentAt[q] < timeout

\* the classes of error a poll may raise: those of the transport, and the
\* validation error of get()
PollErrors == RequestErrors \cup {"NeutronValidationError"}

\* C33: an error raised by a poll inside waitForCompletion (NeutronApiError
\* after the transport's retries, NeutronTimeoutError, NeutronAuthError or
\* NeutronValidationError) is not swallowed: waitForCompletion fails with
\* that error, its kind preserved, and makes no further poll and no further
\* onStateChange call.
C33_PollErrorPropagates ==
    [][/\ poll.pc # "rejected" /\ poll'.pc = "rejected" =>
             /\ waited'.kind \in PollErrors
             /\ poll.pc = "get" => waited'.kind \in RequestErrors
             /\ poll.pc # "get" => waited'.kind = "NeutronValidationError"
             /\ UNCHANGED <<observed, callbacks, naps>>
       /\ poll.pc = "rejected" => UNCHANGED pollVars
       /\ poll.pc = "get" =>
             \/ poll'.pc = "rejected"
             \/ Len(observed') = Len(observed) + 1
             \/ UNCHANGED pollVars]_vars

\* the second poll failed with a NeutronTimeoutError after the first had
\* reported a state to onStateChange: the call has ended with that error
C33_Witness ==
    /\ poll.pc = "rejected"
    /\ waited = GetError("NeutronTimeoutError")
    /\ Len(observed) = 1
    /\ callbacks = observed
    /\ naps = 1

\* an attempt of request is dispatched in this step
DispatchesNow ==
    \E p \in Procs : op[p] = "request" /\ Len(sent'[p]) = Len(sent[p]) + 1

\* an authentication succeeds in this step
AuthenticatesNow == issued' = issued + 1

\* this step appends n lines to the diagnostics, each with the time
LinesWritten(n) ==
    /\ Len(diag') = Len(diag) + n
    /\ SubSeq(diag', 1, Len(diag)) = diag
    /\ \A i \in (Len(diag) + 1)..Len(diag') : diag'[i].ts = now'

\* C34: with debug enabled, every outgoing HTTP request made through request
\* and every successful authentication each produce one timestamped
\* diagnostic line; with debug disabled no diagnostic line is produced.
C34_DebugLines ==
    [][IF debug
       THEN LinesWritten(IF DispatchesNow \/ AuthenticatesNow THEN 1 ELSE 0)
       ELSE diag' = <<>>]_vars

\* the pieces mention the string s in the clear
Mentions(pieces, s) == \E i \in 1..Len(pieces) : pieces[i].text = s

\* the pieces carry an access token
CarriesToken(pieces) == \E i \in 1..Len(pieces) : pieces[i].token # NoToken

\* a piece computed under an HMAC key
Keyed(pieces) == \E i \in 1..Len(pieces) : pieces[i].hmacKey # ""

\* every outgoing request of the calls in progress: the authentication
\* requests and the attempts dispatched
Outgoing ==
    {AuthRequest : p \in {q \in Procs : auths[q] # <<>>}}
        \cup UNION {{ApiRequest(sent[p][i]) : i \in 1..Len(sent[p])} : p \in Requests}

\* the URL, a header or the body of the request shows the string s
ShownIn(req, s) ==
    \/ Mentions(req.url, s)
    \/ \E h \in req.headers : Mentions(h[2], s)
    \/ Mentions(req.body, s)

\* the request uses the secret, and only as the key of the HMAC in its
\* X-Api-Signature header
SignedUnderSecret(req) ==
    \A h \in req.headers :
        IF h[1] = "X-Api-Signature"
        THEN h[2] = <<HmacHex(apiSecret, h[2][1].hmacOver)>>
        ELSE ~Keyed(h[2])

\* the texts a diagnostic line may consist of, fixed without reference to
\* the key, the secret or a token
PublicLines == {[message |-> RequestLine, extra |-> <<>>]}

\* C35: the API secret is used only as the HMAC key: it never appears in the
\* URL, headers or body of an outgoing request, and no diagnostic line
\* contains the API key, the API secret or the access token; runs that differ
\* only in the secret and the tokens write the same diagnostics apart from
\* the timestamps.
C35_SecretsStayPrivate ==
    /\ \A req \in Outgoing :
          /\ ~ShownIn(req, apiSecret)
          /\ SignedUnderSecret(req)
          /\ ~Keyed(req.url) /\ ~Keyed(req.body)
    /\ \A i \in 1..Len(diag) :
          /\ \A s \in {apiKey, apiSecret} :
                ~Mentions(diag[i].message, s) /\ ~Mentions(diag[i].extra, s)
          /\ ~CarriesToken(diag[i].message) /\ ~CarriesToken(diag[i].extra)
          /\ ~Keyed(diag[i].message) /\ ~Keyed(diag[i].extra)
          /\ [message |-> diag[i].message, extra |-> diag[i].extra] \in PublicLines

\* with debug on, a request has authenticated under the second secret, was
\* answered 401, authenticated again and sent its retry: two lines written
C35_Witness ==
    \E p \in Requests :
        /\ debug
        /\ apiSecret = "secret-2"
        /\ Len(auths[p]) = 2
        /\ Len(sent[p]) = 2
        /\ sent[p][1] # sent[p][2]
        /\ Len(diag) = 2

\* the identifier holds a character that is not allowed, or two dots in a row
MalformedId(id) == Sanitized(id) # id \/ HasDotDot(id)

\* C36: every resource method that places a caller-supplied identifier into
\* the request path validates it first: transactions.get, transactions.confirm
\* and fiat.institutions called with an identifier holding a disallowed
\* character or ".." fail with NeutronValidationError and issue no HTTP
\* request, not even an authentication request.
C36_IdentifierValidated ==
    resource.op \in {"get", "confirm", "institutions"} /\ MalformedId(resource.txnId) =>
        /\ resource.pc = "closed"
        /\ settled.kind = "NeutronValidationError"
        /\ resource.log = <<>>
        /\ calls = 0
        /\ issued = 0
        /\ \A p \in Procs : pc[p] = "idle" /\ sent[p] = <<>> /\ auths[p] = <<>>

\* the request p receives a 401 answer in this step
Gets401Now(p) ==
    /\ op[p] = "request"
    /\ Len(resps'[p]) = Len(resps[p]) + 1
    /\ Last(resps'[p]) = 401

\* C37: with two requests running concurrently on one client, a 401 that
\* answers a request sent with an older token never discards a newer token:
\* the cached access token is cleared by a 401 only if the rejected token is
\* still the cached one.
C37_StaleNeverDiscards ==
    [][\A p \in Procs :
          Gets401Now(p) /\ accessToken' # accessToken =>
              Last(sent[p]) = accessToken]_vars

\* C37, as the code has it: a 401 answered to a request with attempts left
\* clears the cached access token whichever token the request was sent with,
\* the one a concurrent authenticate has just stored included; the account id
\* and the expiry stay, the request goes on to its backoff, and a cached
\* token is emptied by nothing else.
C37_AnyRetried401Clears ==
    [][/\ \A p \in Procs :
             Gets401Now(p) /\ attempt[p] < maxRetries =>
                 /\ accessToken' = NoToken
                 /\ UNCHANGED <<accountId, tokenExpiry>>
                 /\ pc'[p] = "sleep"
       /\ accessToken # NoToken /\ accessToken' = NoToken =>
             \E p \in Procs : Gets401Now(p) /\ attempt[p] < maxRetries]_vars

\* two requests are in flight and nothing else has run; the first was sent
\* with token 1 and is the only one answered 401; the second has
\* authenticated and stored token 2; the cache is empty, so the 401 for
\* token 1 has discarded token 2
C37_Witness ==
    /\ calls = 2
    /\ \A p \in Procs : op[p] = "request" /\ pc[p] # "idle"
    /\ sent[1] = <<1>>
    /\ resps[1] = <<401>>
    /\ pc[1] = "sleep"
    /\ \A i \in 1..Len(resps[2]) : resps[2][i] # 401
    /\ Len(auths[2]) = 1 /\ auths[2][1].out = "ok" /\ auths[2][1].tok = 2
    /\ issued = 2
    /\ accessToken = NoToken

\* the request p receives a response that is not 2xx in this step
FailureResponseNow(p) ==
    /\ op[p] = "request"
    /\ Len(resps'[p]) = Len(resps[p]) + 1
    /\ Last(resps'[p]) \in Statuses
    /\ Last(resps'[p]) < 200 \/ Last(resps'[p]) > 299

\* C38: handling a failure response changes the Session only so: a non-2xx
\* response other than 401 (429, 5xx, 400, 403, ...) leaves accountId,
\* accessToken and expiry unchanged, and a 401 changes accessToken only; the
\* credentials, the base URL, timeout and maxRetries are changed by no
\* operation.
C38_FailureFrame ==
    [][/\ \A p \in Procs :
             FailureResponseNow(p) =>
                 IF Last(resps'[p]) = 401
                 THEN UNCHANGED <<accountId, tokenExpiry>>
                 ELSE UNCHANGED sessionVars
       /\ UNCHANGED <<apiKey, apiSecret, baseUrl, timeout, maxRetries>>
       /\ apiKey' = config.apiKey /\ apiSecret' = config.apiSecret]_vars

\* a request answered 429 goes to its backoff with the Session of its
\* authentication intact, under a base URL given with trailing slashes
C38_Witness ==
    \E p \in Requests :
        /\ resps[p] = <<429>>
        /\ pc[p] = "sleep"
        /\ accessToken = 1 /\ accountId = 1 /\ tokenExpiry # 0
        /\ baseUrl = <<"https://sandbox.neutron.me">>
        /\ apiSecret = "secret-2"

\* C39: one call of request issues at most maxRetries + 1 authentication
\* requests: at most one in the initial ensureAuth and at most one before each
\* retry attempt, whatever sequence of 401, 429 and 5xx responses and token
\* expiries occurs.
C39_AuthBudget ==
    \A p \in Requests :
        /\ Len(auths[p]) <= maxRetries + 1
        /\ \A j \in 1..Len(auths[p]) :
              /\ auths[p][j].at <= maxRetries
              /\ auths[p][j].at <= Len(sent[p])
              /\ \A i \in 1..(j - 1) : auths[p][i].at < auths[p][j].at

\* a request with one retry has authenticated at the start and again before
\* its retry: maxRetries + 1 authentication requests
C39_Witness ==
    \E p \in Requests :
        /\ maxRetries = 1
        /\ Len(auths[p]) = 2
        /\ auths[p][1].at = 0 /\ auths[p][2].at = 1
        /\ auths[p][2].out = "ok"
        /\ Len(sent[p]) = 2

\* a request is under way: it awaits authentication, a response or its
\* backoff timer, or is about to send
Running(p) == op[p] = "request" /\ pc[p] \in {"auth", "ready", "api", "sleep"}

\* the request has settled: with the parsed body of a 2xx response, or with
\* an error
Settled(p) ==
    /\ op[p] = "request"
    /\ pc[p] = "done"
    /\ \/ /\ result[p].kind = "ok"
          /\ resps[p] # <<>>
          /\ resps[p][Len(resps[p])] \in 200..299
          /\ result[p] = ParseJson(lastBody[p])
       \/ result[p].kind \notin {"ok", "none"}

\* C40: every call of request terminates: once the HTTP calls are answered or
\* aborted and the backoff timers fire, a request under way eventually
\* returns the parsed body of a 2xx response or fails with an error, for
\* every response sequence and every maxRetries; it does not go round between
\* 401 invalidation and re-authentication for ever.
C40_RequestTerminates == \A p \in Procs : Running(p) ~> Settled(p)

\* a request settled after a 401 discarded its token, it authenticated again
\* and its retry was answered 200
C40_Witness ==
    \E p \in Procs :
        /\ Settled(p)
        /\ resps[p] = <<401, 200>>
        /\ Len(auths[p]) = 2
        /\ result[p].kind = "ok"

====
